---- MODULE Spec2Model ----
(***************************************************************************)
(* Event dispatch engine of linex (src/linex): the signed webhook, the     *)
(* per-event dispatch loop of process(), the handler fan-out of emit(),    *)
(* the one-shot wait_for primitive and the single-use reply of a context.  *)
(* The program runs on one asyncio event loop: a task runs until it        *)
(* awaits something that is not ready.  `running` names the task that      *)
(* holds the loop between two such suspension points.                      *)
(***************************************************************************)
EXTENDS Integers, Sequences, FiniteSets, TLC

\* ---------------------------------------------------------------- bounds
MaxEvents == 2      \* longest webhook payload
MaxReqs == 1        \* webhook requests over a run
MaxHandlers == 2    \* handlers registered per event name
MaxWaits == 2       \* wait_for calls over a run
MaxCalls == 3       \* reply calls over a run
TimeoutTicks == 3   \* timeout of a wait_for, in sleeps of 0.01 s
SigMod == 3         \* size of the toy digest space
MaxCtxs == 4        \* contexts created before the last of a run of payloads
MaxCommands == 2    \* commands registered over a run
MaxCallers == 3     \* tasks calling the functions of linex.http
MaxBits == 3        \* longest raw body of the bit-level verifier, in bits
Concurrent == 2     \* webhook requests in flight at once, where they overlap
MaxRuns == 2        \* calls of command and postback functions over a run

\* ------------------------------------------------------ program constants
ReplyWindow == 1200     \* 60 * 20 seconds
CacheLimit == 2         \* the source keeps 1000 messages; scaled down
ChannelSecret == 2

\* Moments of the wall clock the model distinguishes (seconds).
Times == {0, 1, ReplyWindow, ReplyWindow + 1, ReplyWindow + 2}

\* Names of the handler registry, and of the pending table built from it.
HandlerNames ==
    {"ready", "text", "image", "audio", "file", "location", "sticker",
     "video", "unsend", "follow", "unfollow", "join", "leave",
     "member_join", "member_leave", "postback", "video_complete", "beacon",
     "account_link", "device_link", "device_unlink", "scenario_result"}

MESSAGE_CONTEXTS ==
    {"text", "image", "video", "audio", "file", "location", "sticker"}

OTHER_CONTEXTS ==
    {"unsend", "follow", "unfollow", "join", "leave", "memberJoined",
     "memberLeft", "postback", "videoPlayComplete", "beacon", "accountLink"}

\* Event kinds of the data model and the `type` the platform sends for each.
WireType(kind) ==
    CASE kind = "member_join" -> "memberJoined"
      [] kind = "member_leave" -> "memberLeft"
      [] kind = "video_complete" -> "videoPlayComplete"
      [] kind = "account_link" -> "accountLink"
      [] OTHER -> kind

\* ------------------------------------------------------------- the inputs
\* Raw events a payload is made of; a body is a sequence of indices into it.
Pool ==
    << [type |-> "message", mtype |-> "text", mode |-> "active",
        mid |-> 1, text |-> "ping", token |-> TRUE,
        source |-> "user"],
       [type |-> "message", mtype |-> "text", mode |-> "active",
        mid |-> 2, text |-> "pong", token |-> TRUE,
        source |-> "user"],
       [type |-> "follow", mtype |-> "", mode |-> "active",
        mid |-> 0, text |-> "", token |-> TRUE,
        source |-> "user"],
       [type |-> "memberJoined", mtype |-> "", mode |-> "active",
        mid |-> 0, text |-> "", token |-> TRUE,
        source |-> "group"],
       [type |-> "message", mtype |-> "text", mode |-> "standby",
        mid |-> 1, text |-> "ping", token |-> FALSE,
        source |-> "user"],
       [type |-> "message", mtype |-> "poll", mode |-> "active",
        mid |-> 3, text |-> "", token |-> TRUE,
        source |-> "user"],
       [type |-> "bogus", mtype |-> "", mode |-> "active",
        mid |-> 0, text |-> "", token |-> TRUE,
        source |-> "user"],
       [type |-> "message", mtype |-> "text", mode |-> "active",
        mid |-> 3, text |-> "pong", token |-> TRUE,
        source |-> "user"],
       [type |-> "bogus", mtype |-> "", mode |-> "standby",
        mid |-> 0, text |-> "", token |-> FALSE,
        source |-> "user"],
       [type |-> "message", mtype |-> "text", mode |-> "active",
        mid |-> 4, text |-> "info", token |-> TRUE,
        source |-> "group"],
       [type |-> "message", mtype |-> "text", mode |-> "active",
        mid |-> 4, text |-> "info", token |-> TRUE,
        source |-> "user"],
       [type |-> "message", mtype |-> "text", mode |-> "standby",
        mid |-> 4, text |-> "info", token |-> FALSE,
        source |-> "group"] >>

Bodies == UNION {[1..n -> DOMAIN Pool] : n \in 0..MaxEvents}

\* Names handlers are registered under and waited for in the model.
RegNames == {"text", "follow", "member_join"}

\* Predicates handed to wait_for: the default one and text == "ping".
Preds == {"any", "ping"}

VARIABLES
    now,            \* time.time(), seconds
    ignore_standby, \* Client.ignore_standby
    handlers,       \* Client.handlers: name -> number of handlers registered
    pending,        \* Client.pending: name -> (wait id -> slot, 0 is None)
    MESSAGES,       \* cache.MESSAGES: insertion-ordered <<id, context>>
    ctxs,           \* the context objects created so far
    reqs,           \* the webhook requests
    waits,          \* the wait_for calls
    calls,          \* the reply calls
    running,        \* the task holding the event loop, 0 when it is free
    commands,       \* Client._commands, in the order of registration
    router,         \* the last registration and the last process_commands
    gwcalls,        \* the calls of the functions of linex.http
    limiter,        \* requests let through in the window, per RateLimit
    decoded,        \* the last context built, and the keys its event had
    verifier,       \* the last signature check of the webhook, bit by bit
    postbacks,      \* the on_postback handlers made by Client.postback
    runs            \* the calls of command and postback functions made so far

vars == <<now, ignore_standby, handlers, pending, MESSAGES, ctxs, reqs,
          waits, calls, running, commands, router, gwcalls, limiter,
          decoded, verifier, postbacks, runs>>

\* ------------------------------------------------------------ the verifier
RECURSIVE HmacFold(_, _, _)
HmacFold(h, body, i) ==
    IF i > Len(body) THEN h
    ELSE HmacFold((h * 7 + body[i] + 1) % SigMod, body, i + 1)

\* hmac.new(secret, body, sha256).digest(), a keyed digest of the raw body.
Hmac(secret, body) == HmacFold((secret + Len(body)) % SigMod, body, 1)

\* base64.b64encode(hash): never the empty string, which is 0 here.
ValidSignature(secret, body) == Hmac(secret, body) + 1

Signatures == 0..SigMod

AcceptAnyHeader(line_signature, body) == line_signature # 0

\* hmac.compare_digest(line_signature, valid_signature)
CompareDigest(line_signature, body) ==
    line_signature = ValidSignature(ChannelSecret, body)

JsonReversed(body) ==
    [i \in DOMAIN body |-> Pool[body[Len(body) + 1 - i]]]

\* request.json()["events"]
Json(body) == [i \in DOMAIN body |-> Pool[body[i]]]

\* ------------------------------------------------------------ the contexts
\* The name an event is dispatched under: event["message"]["type"] for a
\* message, event["type"] otherwise.
NameOf(e) == IF e.type = "message" THEN e.mtype ELSE e.type

\* ctx(client, event): BaseContext, RepliableContext, MessageContext and
\* TextMessageContext fields read from the payload.
NewContext(e, r, i, ts) ==
    [name |-> NameOf(e), event_id |-> <<r, i>>, timestamp |-> ts,
     reply_token |-> e.token, mode |-> e.mode, replied |-> FALSE,
     id |-> e.mid, text |-> e.text, source |-> e.source]

StandbyNeverSkipped(e, ignore) == FALSE

\* event["mode"] == "standby" and cls.ignore_standby: the event is passed over.
Standby(e, ignore) == e.mode = "standby" /\ ignore

UnknownMessageDecoded(e) == FALSE

\* A message whose nested type has no class in MESSAGE_CONTEXTS: a warning
\* is logged and the event is passed over.
UnknownMessage(e) == e.type = "message" /\ e.mtype \notin MESSAGE_CONTEXTS

UnknownEventDecoded(e) == FALSE

\* An event that is no message and has no class in OTHER_CONTEXTS: NameError.
UnknownEvent(e) == e.type # "message" /\ e.type \notin OTHER_CONTEXTS

AddWithoutEviction(cache, id, c) ==
    LET pos == {i \in DOMAIN cache : cache[i][1] = id}
    IN  IF pos = {} THEN Append(cache, <<id, c>>)
        ELSE [cache EXCEPT ![CHOOSE i \in pos : TRUE] = <<id, c>>]

\* MESSAGES[context.id] = context, then the oldest key is popped when the
\* dict holds more than the limit.  A dict keeps a key at the place of its
\* first insertion.
AddToMessageCache(cache, id, c) ==
    LET pos == {i \in DOMAIN cache : cache[i][1] = id}
        put == IF pos = {} THEN Append(cache, <<id, c>>)
               ELSE [cache EXCEPT ![CHOOSE i \in pos : TRUE] = <<id, c>>]
    IN  IF Len(put) > CacheLimit THEN Tail(put) ELSE put

FulfillAfterEmit(pend, name, c) == pend

\* fulfill_pendings(name, context): every entry under the name, filled or
\* not, is set to the context.
FulfillPendings(pend, name, c) ==
    [pend EXCEPT ![name] = [w \in DOMAIN @ |-> c]]

EmitTasksWithCommands(hs, name) ==
    LET own == [i \in 1..hs[name] |-> [fn |-> i, st |-> "ready"]]
    IN  IF name = "text"
        THEN Append(own, [fn |-> 0, st |-> "ready"])
        ELSE own

\* The coroutines emit() hands to gather: one per registered handler, or
\* process_commands (fn 0) for a text event nobody handles.
EmitTasks(hs, name) ==
    LET own == [i \in 1..hs[name] |-> [fn |-> i, st |-> "ready"]]
    IN  IF name = "text" /\ own = <<>>
        THEN <<[fn |-> 0, st |-> "ready"]>>
        ELSE own

Finished(task) == task.st \in {"done", "failed"}

GatherFirstException(tasks) ==
    \/ \A i \in DOMAIN tasks : Finished(tasks[i])
    \/ \E i \in DOMAIN tasks : tasks[i].st = "failed"

\* asyncio.gather(*handlers, return_exceptions=True) over do_event_safe
\* wrappers: it is done when every coroutine has finished, failed or not.
GatherDone(tasks) == \A i \in DOMAIN tasks : Finished(tasks[i])

\* --------------------------------------------------------------- the reply
SentStates == {"sent", "ok", "failed"}

ReplyOutcomeNoRepliedCheck(ctx, t) ==
    IF ~ctx.reply_token THEN "no_token"
    ELSE IF t - ctx.timestamp > ReplyWindow THEN "too_late"
    ELSE "sent"

ReplyOutcomeAgeInclusive(ctx, t) ==
    IF ~ctx.reply_token THEN "no_token"
    ELSE IF t - ctx.timestamp >= ReplyWindow THEN "too_late"
    ELSE IF ctx.replied THEN "already_replied"
    ELSE "sent"

\* The checks of RepliableContext.reply in their order: TypeError without a
\* reply token, CannotReply (too late) past the window, CannotReply (already
\* replied) on a replied context; otherwise the request is sent.
ReplyOutcome(ctx, t) ==
    IF ~ctx.reply_token THEN "no_token"
    ELSE IF t - ctx.timestamp > ReplyWindow THEN "too_late"
    ELSE IF ctx.replied THEN "already_replied"
    ELSE "sent"

MarkAfterResponse(ctx) == ctx

\* self.replied = True, before the request is awaited.
MarkReplied(ctx) == [ctx EXCEPT !.replied = TRUE]

\* ------------------------------------------------------------- the waits
\* check(_pre_result) for the two predicates of the model.
Check(pred, ctx) == pred = "any" \/ ctx.text = "ping"

KeepEntry(pend, name, w) == pend

\* del self.pending[name][_id]
RemoveEntry(pend, name, w) ==
    [pend EXCEPT ![name] = [x \in DOMAIN @ \ {w} |-> @[x]]]

AddEntryFilled(pend, name, w) == [pend EXCEPT ![name] = @ @@ (w :> 1)]

\* self.pending[name][_id] = None
AddEntry(pend, name, w) == [pend EXCEPT ![name] = @ @@ (w :> 0)]

\* ------------------------------------------------------------ the commands
\* Texts and command names are sequences of characters.
TextSend == <<"s", "e", "n", "d">>    \* "send"
TextSender == <<"s", "e", "n", "d", "e", "r">>    \* "sender"
TextSendX == <<"s", "e", "n", "d", " ", "x">>    \* "send x"
TextEcho == <<"e", "c", "h", "o">>    \* "echo"
TextEchoHelloWorld == <<"e", "c", "h", "o", " ", "h", "e", "l", "l", "o", ";", "w", "o", "r", "l", "d">>    \* "echo hello;world"
TextEchoHello == <<"e", "c", "h", "o", "h", "e", "l", "l", "o">>    \* "echohello"
TextEchoThree == <<"e", "c", "h", "o", " ", "a", ";", " ", "b", " ", ";", "c">>    \* "echo a; b ;c"
TextInfo == <<"i", "n", "f", "o">>    \* "info"

\* The characters of the text of a message.
Chars(text) ==
    CASE text = "info" -> TextInfo
      [] text = "ping" -> <<"p", "i", "n", "g">>
      [] text = "pong" -> <<"p", "o", "n", "g">>
      [] OTHER -> <<>>

CommandNames == {TextSend, TextSender, TextEcho, TextInfo}

CommandTexts ==
    {TextSend, TextSender, TextSendX, TextEcho, TextEchoHelloWorld,
     TextEchoHello, TextEchoThree, TextInfo}

\* The parameters of a command function after ctx, as Command.meta holds
\* them: the annotations of the positional ones, and whether a keyword-only
\* one follows.
Metas ==
    [regular : {<<>>, <<"str">>, <<"list">>}, kw : BOOLEAN]

\* str.startswith
StartsWith(text, name) ==
    Len(text) >= Len(name) /\ SubSeq(text, 1, Len(name)) = name

\* text[n:]
Drop(text, n) == SubSeq(text, n + 1, Len(text))

SplitNowhere(text, sep) == <<text>>

RECURSIVE Split(_, _)
\* str.split(sep)
Split(text, sep) ==
    IF \A i \in DOMAIN text : text[i] # sep THEN <<text>>
    ELSE LET k == CHOOSE i \in DOMAIN text :
                      text[i] = sep /\ \A j \in 1..(i - 1) : text[j] # sep
         IN  <<SubSeq(text, 1, k - 1)>> \o Split(Drop(text, k), sep)

RECURSIVE RStrip(_)
\* str.rstrip()
RStrip(text) ==
    IF text # <<>> /\ text[Len(text)] = " "
    THEN RStrip(SubSeq(text, 1, Len(text) - 1))
    ELSE text

RECURSIVE BindParts(_, _, _, _)
\* The loop of handle_command over enumerate(parts); index counts from 1.
BindParts(meta, parts, index, acc) ==
    IF index > Len(parts) \/ acc.err # "none" THEN acc
    ELSE IF meta.kw /\ index > Len(meta.regular)
    THEN BindParts(meta, parts, index + 1,
             [acc EXCEPT !.kwset = TRUE, !.kw = @ \o parts[index] \o <<" ">>])
    ELSE IF index > Len(meta.regular)
    THEN [acc EXCEPT !.err = "IndexError"]
    ELSE IF meta.regular[index] \notin {"str", "int", "float", "bool"}
    THEN [acc EXCEPT !.err = "TypeError"]
    ELSE BindParts(meta, parts, index + 1,
             [acc EXCEPT !.args = Append(@, parts[index])])

NoCall == [result |-> "false", invoked |-> <<>>]

Called(args, kwset, kw, okf) ==
    [result |-> IF okf THEN "true" ELSE "raised",
     invoked |-> <<[args |-> args, kwset |-> kwset, kw |-> kw]>>]

MatchNothing(text, name) == FALSE

\* The first test of handle_command: ctx.text.startswith(self.name).
Match(text, name) == StartsWith(text, name)

\* Command.handle_command on a text: what it returns, and the call of the
\* command function it makes, if any.  okf tells whether the function
\* returns or raises; a call that lacks an argument of the function raises
\* before the function runs.
HandleCommand(cmd, text, okf) ==
    IF ~Match(text, cmd.name) THEN NoCall
    ELSE IF ~cmd.meta.kw /\ cmd.meta.regular = <<>>
    THEN Called(<<>>, FALSE, <<>>, okf)
    ELSE LET parts == Split(Drop(text, Len(cmd.name) + 1), ";")
             b == BindParts(cmd.meta, parts, 1,
                     [args |-> <<>>, kwset |-> FALSE, kw |-> <<>>,
                      err |-> "none"])
         IN  IF b.err # "none" THEN [NoCall EXCEPT !.result = "raised"]
             ELSE IF \/ Len(b.args) # Len(cmd.meta.regular)
                     \/ cmd.meta.kw /\ ~b.kwset
             THEN [NoCall EXCEPT !.result = "raised"]
             ELSE Called(b.args, b.kwset, RStrip(b.kw), okf)

RECURSIVE RunCommands(_, _, _, _)
\* [await cmd.handle_command(ctx) for cmd in self._commands.values()]: the
\* commands are tried in the order of registration, all of them unless one
\* raises.
RunCommands(cmds, text, okf, k) ==
    IF k > Len(cmds) THEN NoCall
    ELSE LET h == HandleCommand(cmds[k], text, okf)
             tagged == [i \in DOMAIN h.invoked |->
                           [cmd |-> k] @@ h.invoked[i]]
         IN  IF h.result = "raised"
             THEN [result |-> "raised", invoked |-> tagged]
             ELSE LET rest == RunCommands(cmds, text, okf, k + 1)
                  IN  [result |-> IF rest.result = "raised" THEN "raised"
                                  ELSE IF h.result = "true" THEN "true"
                                  ELSE rest.result,
                       invoked |-> tagged \o rest.invoked]

\* Client.process_commands: any([...]) of what the commands return.
ProcessCommands(cmds, text, okf) == RunCommands(cmds, text, okf, 1)

\* Nothing registered or routed yet: reg and name are the outcome and the
\* name of the last registration, text, result and invoked those of the
\* last process_commands.
NoRoute ==
    [reg |-> "none", name |-> <<>>, text |-> <<>>, result |-> "none",
     invoked |-> <<>>]

\* ------------------------------------------------------------- the gateway
\* The functions of linex.http that call the platform.
Operations ==
    {"get_bot_info", "fetch_group_member_count", "fetch_group_chat_summary",
     "reply", "mark_as_read", "display_loading", "push", "fetch_user",
     "set_webhook_endpoint", "fetch_webhook", "test_webhook", "fetch_file"}

\* The functions that await the call() of their RateLimit before the
\* request: rr_botInfo, rr_getMemberCount, rr_getGroupChat, rr_getUser,
\* rr_setWebhookEndpoint, rr_getWebhook, rr_testWebhook.
Limited ==
    {"get_bot_info", "fetch_group_member_count", "fetch_group_chat_summary",
     "fetch_user", "set_webhook_endpoint", "fetch_webhook", "test_webhook"}

\* Statuses the platform answers with.
Statuses == {200, 404, 410, 500}

\* What each function does with the status of the response: the test
\* `status_code != 200`, raise_for_status(), the two statuses fetch_file
\* knows, or nothing.
Raises(op, status) ==
    CASE op \in {"reply", "mark_as_read", "display_loading", "push"} ->
             status # 200
      [] op = "fetch_group_chat_summary" -> status >= 400
      [] op = "fetch_file" -> status \in {404, 410}
      [] OTHER -> FALSE

IdleCall ==
    [op |-> "", pc |-> "idle", acquired |-> FALSE, waited |-> FALSE,
     status |-> 0]

\* ------------------------------------------------------- postback handlers
\* Prefixes given to Client.postback and data of postback events.
TextMenu == <<"m", "e", "n", "u">>    \* "menu"
TextShop == <<"s", "h", "o", "p">>    \* "shop"
TextMenuOne == <<"m", "e", "n", "u", ";", "1">>    \* "menu;1"
TextShopOne == <<"s", "h", "o", "p", ";", "1">>    \* "shop;1"
TextMenuOneTwo == <<"m", "e", "n", "u", ";", "1", ";", "2">>    \* "menu;1;2"

PostbackPrefixes == {TextMenu, TextShop}

PostbackData == {TextMenu, TextMenuOne, TextShopOne, TextMenuOneTwo}

RECURSIVE BindPostbackParts(_, _, _, _)
\* The loop of on_postback over enumerate(parts); index counts from 1.  The
\* parts of the keyword-only parameter are joined as they are.
BindPostbackParts(meta, parts, index, acc) ==
    IF index > Len(parts) \/ acc.err # "none" THEN acc
    ELSE IF meta.kw /\ index > Len(meta.regular)
    THEN BindPostbackParts(meta, parts, index + 1,
             [acc EXCEPT !.kwset = TRUE, !.kw = @ \o parts[index]])
    ELSE IF index > Len(meta.regular)
    THEN [acc EXCEPT !.err = "IndexError"]
    ELSE IF meta.regular[index] \notin {"str", "int", "float", "bool"}
    THEN [acc EXCEPT !.err = "TypeError"]
    ELSE BindPostbackParts(meta, parts, index + 1,
             [acc EXCEPT !.args = Append(@, parts[index])])

\* on_postback, the handler Client.postback(data) registers for a function:
\* what it does on an event whose data is `data`, and the call of the
\* function it makes, if any.  No test of the prefix is made: the data is
\* cut after len(prefix + ";") characters and split.
OnPostback(hd, data, okf) ==
    LET parts == Split(Drop(data, Len(hd.prefix) + 1), ";")
        b == BindPostbackParts(hd.meta, parts, 1,
                [args |-> <<>>, kwset |-> FALSE, kw |-> <<>>,
                 err |-> "none"])
    IN  IF b.err # "none" THEN [NoCall EXCEPT !.result = "raised"]
        ELSE IF \/ Len(b.args) # Len(hd.meta.regular)
                \/ hd.meta.kw /\ ~b.kwset
        THEN [NoCall EXCEPT !.result = "raised"]
        ELSE Called(b.args, b.kwset, b.kw, okf)

\* ------------------------------------------------------ optional keys
\* Keys of an event the platform may leave out.
OptionalKeys ==
    {"source", "replyToken", "message.markAsReadToken", "postback.params"}

\* The names a context class is looked up under: MESSAGE_CONTEXTS by the
\* type of the message, OTHER_CONTEXTS by the type of the event.
ContextNames == MESSAGE_CONTEXTS \cup OTHER_CONTEXTS

\* payload[key]: KeyError on an absent key.
Subscript(keys, key) == IF key \in keys THEN "value" ELSE "KeyError"

\* payload.get(key): None on an absent key.
Get(keys, key) == IF key \in keys THEN "value" ELSE "None"

\* The fields the __post_init__ chain of the class of `name` reads from
\* keys the platform may leave out, on an event that has the keys `keys`:
\* BaseContext reads source and replyToken with get, MessageContext reads
\* message["markAsReadToken"] and PostbackContext postback["params"] with
\* a subscript.
PostInit(name, keys) ==
    [source |-> Get(keys, "source"),
     reply_token |-> Get(keys, "replyToken"),
     mark_as_read_token |->
         IF name \in MESSAGE_CONTEXTS
         THEN Subscript(keys, "message.markAsReadToken") ELSE "unset",
     params |->
         IF name = "postback"
         THEN Subscript(keys, "postback.params") ELSE "unset"]

\* ctx(client, event): the context, or the KeyError that leaves
\* __post_init__.
Construct(name, keys) ==
    LET f == PostInit(name, keys)
    IN  IF "KeyError" \in {f.mark_as_read_token, f.params}
        THEN [raised |-> TRUE, name |-> name, keys |-> keys,
              fields |-> [source |-> "unset", reply_token |-> "unset",
                          mark_as_read_token |-> "unset",
                          params |-> "unset"]]
        ELSE [raised |-> FALSE, name |-> name, keys |-> keys, fields |-> f]

NoDecode ==
    [raised |-> FALSE, name |-> "", keys |-> {},
     fields |-> [source |-> "unset", reply_token |-> "unset",
                 mark_as_read_token |-> "unset", params |-> "unset"]]

\* ------------------------------------------------- the verifier, on bits
\* Raw bodies and headers as bit strings.  HMAC-SHA256 is taken to be free
\* of collisions on the bodies of the model: a keyed permutation of the
\* numbers of DigestWidth bits.
DigestWidth == MaxBits + 2

BitSeqs(n) == [1..n -> {0, 1}]

BitBodies == UNION {BitSeqs(n) : n \in 0..MaxBits}

Secrets == {0, 1}

RECURSIVE Value(_)
\* The number a bit string spells, most significant bit first.
Value(bits) ==
    IF bits = <<>> THEN 0
    ELSE 2 * Value(SubSeq(bits, 1, Len(bits) - 1)) + bits[Len(bits)]

RECURSIVE ToBits(_, _)
\* The bit string of a given width that spells a number.
ToBits(n, width) ==
    IF width = 0 THEN <<>>
    ELSE Append(ToBits(n \div 2, width - 1), n % 2)

\* hmac.new(secret, body, hashlib.sha256).digest()
Mac(secret, body) ==
    LET message == 2 * (2 ^ Len(body) + Value(body) - 1) + secret
    IN  (7 * message + 3) % (2 ^ DigestWidth)

\* base64.b64encode(hash): the digest spelled out, one to one.
B64(digest) == ToBits(digest, DigestWidth)

\* What the platform puts into X-Line-Signature.
Sign(secret, body) == B64(Mac(secret, body))

\* The header of a request: a signature-sized string, or the empty string
\* of an absent header.
Headers == BitSeqs(DigestWidth) \cup {<<>>}

ComparePrefix(a, b) ==
    /\ Len(a) = Len(b)
    /\ \A i \in 1..(Len(a) - 1) : a[i] = b[i]

\* hmac.compare_digest(a, b)
CompareBits(a, b) == a = b

\* The signature check of the webhook on a raw body and a header.
Verify(secret, body, header) == CompareBits(header, Sign(secret, body))

NoVerdict ==
    [secret |-> 0, body |-> <<>>, header |-> <<>>, result |-> FALSE,
     checked |-> FALSE]

\* ------------------------------------------------------------ the requests
\* A webhook request: where it is, what it read, the event it is at, the
\* coroutines of the emit under way, the errors do_event_safe has logged
\* and whether the notice of a successful verification was logged.
IdleReq ==
    [pc |-> "idle", body |-> <<>>, sig |-> 0, ts |-> 0, idx |-> 0,
     status |-> 0, tasks |-> <<>>, ctx |-> 0, errs |-> 0,
     notice |-> FALSE]

\* The response is sent and the request object is dropped.
Respond(status) == [IdleReq EXCEPT !.pc = "done", !.status = status]

\* The loop of process() moves to the next event, or process() returns and
\* the webhook answers 200.
Continue(rq) ==
    IF rq.idx < Len(rq.body)
    THEN [rq EXCEPT !.pc = "process", !.idx = @ + 1, !.tasks = <<>>,
                    !.ctx = 0]
    ELSE Respond(200)

\* An exception leaves process(); the webhook re-raises it and the server
\* answers 500.
Raised == Respond(500)

EnterProcessUnguarded(rq) == Continue(rq)

\* process() is entered: `if not events` logs the notice of a successful
\* verification and returns at once, else the loop starts at the first
\* event.
EnterProcess(rq) ==
    IF rq.body = <<>>
    THEN [Respond(200) EXCEPT !.notice = TRUE]
    ELSE Continue(rq)

SkipReturns(rq) == Respond(200)

\* `continue` on an event that is passed over.
SkipEvent(rq) == Continue(rq)

AfterEmitPropagating(rq) ==
    IF \E i \in DOMAIN rq.tasks : rq.tasks[i].st = "failed"
    THEN Raised ELSE Continue(rq)

\* emit() returns None whatever its handlers did, and the loop goes on.
AfterEmit(rq) == Continue(rq)

Holder(rs, r) == IF rs[r].pc = "process" THEN r ELSE 0

\* The request objects of a run: those of the payloads that come one after
\* another, or those in flight together.
Slots == IF Concurrent > MaxReqs THEN Concurrent ELSE MaxReqs

Init ==
    /\ now = 0
    /\ ignore_standby \in BOOLEAN
    /\ handlers = [n \in HandlerNames |-> 0]
    /\ pending = [n \in HandlerNames |-> <<>>]
    /\ MESSAGES = <<>>
    /\ ctxs = <<>>
    /\ reqs = [r \in 1..Slots |-> IdleReq]
    /\ waits = <<>>
    /\ calls = <<>>
    /\ running = 0
    /\ commands = <<>>
    /\ router = NoRoute
    /\ gwcalls = [c \in 1..MaxCallers |-> IdleCall]
    /\ limiter = [op \in Limited |-> 0]
    /\ decoded = NoDecode
    /\ verifier = NoVerdict
    /\ postbacks = <<>>
    /\ runs = <<>>

\* Client.event / Client.listen, called while the module is set up.
Listen(name) ==
    /\ running = 0
    /\ \A r \in DOMAIN reqs : reqs[r].pc = "idle"
    /\ name \in DOMAIN handlers
    /\ handlers[name] < MaxHandlers
    /\ handlers' = [handlers EXCEPT ![name] = @ + 1]
    /\ UNCHANGED <<now, ignore_standby, pending, MESSAGES, ctxs, reqs,
                   waits, calls, running,
                   commands, router, gwcalls, limiter,
                   decoded, verifier, postbacks, runs>>

\* POST / arrives: body = await request.body(), with the header it came with
\* and the timestamp the platform gave its events.
Receive(r, body, sig, ts) ==
    /\ running = 0
    /\ reqs[r].pc = "idle"
    /\ \A q \in 1..(r - 1) : reqs[q].pc # "idle"
    /\ ts <= now
    /\ reqs' = [reqs EXCEPT ![r] = [IdleReq EXCEPT !.pc = "received",
                    !.body = body, !.sig = sig, !.ts = ts]]
    /\ UNCHANGED <<now, ignore_standby, handlers, pending, MESSAGES, ctxs,
                   waits, calls, running,
                   commands, router, gwcalls, limiter,
                   decoded, verifier, postbacks, runs>>

\* The webhook after the body is read: the signature check, request.json()
\* and the entry of process(), which returns at once on an empty event list.
Webhook(r) ==
    /\ running = 0
    /\ reqs[r].pc = "received"
    /\ reqs' = [reqs EXCEPT ![r] =
            IF ~CompareDigest(@.sig, @.body) THEN Respond(400)
            ELSE EnterProcess(@)]
    /\ running' = Holder(reqs', r)
    /\ UNCHANGED <<now, ignore_standby, handlers, pending, MESSAGES, ctxs,
                   waits, calls,
                   commands, router, gwcalls, limiter,
                   decoded, verifier, postbacks, runs>>

\* One turn of the loop of process(), up to the gather of emit().
ProcessEvent(r) ==
    /\ running = r
    /\ reqs[r].pc = "process"
    /\ LET rq == reqs[r]
           e == Json(rq.body)[rq.idx]
           name == NameOf(e)
           c == Len(ctxs) + 1
           skipped == Standby(e, ignore_standby) \/ UnknownMessage(e)
           unknown == UnknownEvent(e)
           tasks == EmitTasks(handlers, name)
       IN  IF skipped
           THEN /\ reqs' = [reqs EXCEPT ![r] = SkipEvent(rq)]
                /\ UNCHANGED <<ctxs, MESSAGES, pending>>
           ELSE IF unknown
           THEN /\ reqs' = [reqs EXCEPT ![r] = Raised]
                /\ UNCHANGED <<ctxs, MESSAGES, pending>>
           ELSE /\ ctxs' = Append(ctxs, NewContext(e, r, rq.idx, rq.ts))
                /\ MESSAGES' = IF e.type = "message"
                               THEN AddToMessageCache(MESSAGES, e.mid, c)
                               ELSE MESSAGES
                /\ IF name \notin DOMAIN pending
                   THEN /\ reqs' = [reqs EXCEPT ![r] = Raised]
                        /\ UNCHANGED pending
                   ELSE /\ pending' = FulfillPendings(pending, name, c)
                        /\ reqs' = [reqs EXCEPT ![r] =
                             IF name \notin DOMAIN handlers THEN Raised
                             ELSE IF tasks = <<>> THEN AfterEmit(rq)
                             ELSE [rq EXCEPT !.pc = "emit", !.ctx = c,
                                             !.tasks = tasks]]
    /\ running' = Holder(reqs', r)
    /\ UNCHANGED <<now, ignore_standby, handlers, waits, calls,
                   commands, router, gwcalls, limiter,
                   decoded, verifier, postbacks, runs>>

\* A handler coroutine wrapped by do_event_safe starts; gather starts them
\* in the order of registration.
HandlerStart(r, i) ==
    /\ running = 0
    /\ reqs[r].pc = "emit"
    /\ i \in DOMAIN reqs[r].tasks
    /\ reqs[r].tasks[i].st = "ready"
    /\ \A j \in 1..(i - 1) : reqs[r].tasks[j].st # "ready"
    /\ reqs' = [reqs EXCEPT ![r].tasks[i].st = "running"]
    /\ UNCHANGED <<now, ignore_standby, handlers, pending, MESSAGES, ctxs,
                   waits, calls, running,
                   commands, router, gwcalls, limiter,
                   decoded, verifier, postbacks, runs>>

\* The handler returns, or raises and do_event_safe logs the error (errs
\* counts the errors logged for the request).
HandlerFinish(r, i, ok) ==
    /\ running = 0
    /\ reqs[r].pc = "emit"
    /\ i \in DOMAIN reqs[r].tasks
    /\ reqs[r].tasks[i].st = "running"
    /\ reqs' = [reqs EXCEPT ![r].tasks[i].st =
                    IF ok THEN "done" ELSE "failed",
                             ![r].errs = IF ok THEN @ ELSE @ + 1]
    /\ UNCHANGED <<now, ignore_standby, handlers, pending, MESSAGES, ctxs,
                   waits, calls, running,
                   commands, router, gwcalls, limiter,
                   decoded, verifier, postbacks, runs>>

\* The gather of emit() completes and process() goes on with its loop.
EmitReturn(r) ==
    /\ running = 0
    /\ reqs[r].pc = "emit"
    /\ GatherDone(reqs[r].tasks)
    /\ reqs' = [reqs EXCEPT ![r] = AfterEmit(@)]
    /\ running' = Holder(reqs', r)
    /\ UNCHANGED <<now, ignore_standby, handlers, pending, MESSAGES, ctxs,
                   waits, calls,
                   commands, router, gwcalls, limiter,
                   decoded, verifier, postbacks, runs>>

\* The steps of a request once its body is read.
Dispatch ==
    \/ \E r \in 1..MaxReqs : Webhook(r)
    \/ \E r \in 1..MaxReqs : ProcessEvent(r)
    \/ \E r \in 1..MaxReqs, i \in 1..(MaxHandlers + 1) : HandlerStart(r, i)
    \/ \E r \in 1..MaxReqs, i \in 1..(MaxHandlers + 1), ok \in BOOLEAN :
          HandlerFinish(r, i, ok)
    \/ \E r \in 1..MaxReqs : EmitReturn(r)

\* The dispatch engine: any registration, any request, any header.
Next ==
    \/ \E name \in RegNames : Listen(name)
    \/ \E r \in 1..MaxReqs, body \in Bodies, sig \in Signatures :
          Receive(r, body, sig, now)
    \/ Dispatch

Spec == Init /\ [][Next]_vars

\* ------------------------------------------------------------ reply calls
\* time.time() moves on.
Tick ==
    /\ now < ReplyWindow + 2
    /\ now' = CHOOSE t \in Times : t > now /\ \A u \in Times : u > now => t <= u
    /\ UNCHANGED <<ignore_standby, handlers, pending, MESSAGES, ctxs, reqs,
                   waits, calls, running,
                   commands, router, gwcalls, limiter,
                   decoded, verifier, postbacks, runs>>

\* A task calls ctx.reply(...): the checks, the flag and the sending of the
\* request happen before the call first suspends.
Reply(c) ==
    /\ running = 0
    /\ Len(calls) < MaxCalls
    /\ c \in DOMAIN ctxs
    /\ LET st == ReplyOutcome(ctxs[c], now)
       IN  /\ calls' = Append(calls, [ctx |-> c, st |-> st])
           /\ ctxs' = IF st = "sent"
                      THEN [ctxs EXCEPT ![c] = MarkReplied(@)]
                      ELSE ctxs
    /\ UNCHANGED <<now, ignore_standby, handlers, pending, MESSAGES, reqs,
                   waits, running,
                   commands, router, gwcalls, limiter,
                   decoded, verifier, postbacks, runs>>

\* The platform answers the reply request: 200, or another status and
\* http.reply raises RuntimeError.
ReplyResponse(k, ok) ==
    /\ running = 0
    /\ k \in DOMAIN calls
    /\ calls[k].st = "sent"
    /\ calls' = [calls EXCEPT ![k].st = IF ok THEN "ok" ELSE "failed"]
    /\ UNCHANGED <<now, ignore_standby, handlers, pending, MESSAGES, ctxs,
                   reqs, waits, running,
                   commands, router, gwcalls, limiter,
                   decoded, verifier, postbacks, runs>>

\* Payloads of one text event, with and without a reply token.
ReplyBodies == {<<1>>, <<5>>}

NextReply ==
    \/ Tick
    \/ \E r \in 1..MaxReqs, body \in ReplyBodies, ts \in Times :
          Receive(r, body, ValidSignature(ChannelSecret, body), ts)
    \/ Dispatch
    \/ \E c \in 1..(MaxReqs * MaxEvents) : Reply(c)
    \/ \E k \in 1..MaxCalls, ok \in BOOLEAN : ReplyResponse(k, ok)

\* Reply calls on the contexts of delivered text events, as time passes.
SpecReply == Init /\ [][NextReply]_vars

\* --------------------------------------------------------------- wait_for
\* A task calls wait_for(name, check=..., timeout=...): the entry is made
\* and the first turn of the loop finds the slot empty and sleeps 0.01 s.
\* timeout is counted in sleeps, 0 standing for None.
WaitFor(name, check, timeout) ==
    /\ running = 0
    /\ Len(waits) < MaxWaits
    /\ name \in DOMAIN pending
    /\ LET w == Len(waits) + 1
       IN  /\ pending' = AddEntry(pending, name, w)
           /\ waits' = Append(waits,
                  [pc |-> "sleep", name |-> name, check |-> check,
                   timeout |-> timeout, elapsed |-> 0, result |-> 0,
                   iters |-> IF timeout = 0 THEN 0 ELSE 1])
    /\ UNCHANGED <<now, ignore_standby, handlers, MESSAGES, ctxs, reqs,
                   calls, running,
                   commands, router, gwcalls, limiter,
                   decoded, verifier, postbacks, runs>>

\* The sleep of a wait_for ends: elapsed grows, the timeout is tested, the
\* loop ends on a result, or its next turn reads the slot and sleeps again.
\* A turn whose check rejects the slot goes back to the top of the loop
\* without sleeping, so the task keeps the event loop.  Without a timeout
\* elapsed is never read and is left at 0.
WaitWake(w) ==
    /\ running = 0
    /\ w \in DOMAIN waits
    /\ waits[w].pc = "sleep"
    /\ LET wt == waits[w]
           el == IF wt.timeout = 0 THEN 0 ELSE wt.elapsed + 1
           it == IF wt.timeout = 0 THEN 0 ELSE wt.iters + 1
           pre == pending[wt.name][w]
       IN  IF wt.timeout # 0 /\ el >= wt.timeout
           THEN /\ waits' = [waits EXCEPT ![w].pc = "timeout",
                                          ![w].elapsed = el]
                /\ UNCHANGED <<pending, running>>
           ELSE IF wt.result # 0
           THEN /\ waits' = [waits EXCEPT ![w].pc = "returned",
                                          ![w].elapsed = el]
                /\ pending' = RemoveEntry(pending, wt.name, w)
                /\ UNCHANGED running
           ELSE IF pre # 0 /\ ~Check(wt.check, ctxs[pre])
           THEN /\ waits' = [waits EXCEPT ![w].pc = "spin",
                                          ![w].elapsed = el,
                                          ![w].iters = it]
                /\ running' = Slots + w
                /\ UNCHANGED pending
           ELSE /\ waits' = [waits EXCEPT ![w].elapsed = el,
                                          ![w].iters = it,
                                          ![w].result = pre]
                /\ UNCHANGED <<pending, running>>
    /\ UNCHANGED <<now, ignore_standby, handlers, MESSAGES, ctxs, reqs,
                   calls,
                   commands, router, gwcalls, limiter,
                   decoded, verifier, postbacks, runs>>

\* One more turn of the loop on a rejected slot: nothing else has run, the
\* slot is the same and the check rejects it again.  The turns are counted
\* up to one past the timeout.
Spin(w) ==
    /\ w \in DOMAIN waits
    /\ running = Slots + w
    /\ waits[w].pc = "spin"
    /\ waits[w].timeout # 0
    /\ waits[w].iters <= waits[w].timeout
    /\ waits' = [waits EXCEPT ![w].iters = @ + 1]
    /\ UNCHANGED <<now, ignore_standby, handlers, pending, MESSAGES, ctxs,
                   reqs, calls, running,
                   commands, router, gwcalls, limiter,
                   decoded, verifier, postbacks, runs>>

\* Payloads of text events "ping" and "pong" and of memberJoined events.
WaitEvents == {1, 2, 4}

WaitBodies == UNION {[1..n -> WaitEvents] : n \in 1..MaxEvents}

WaitNames == {"text", "member_join"}

NextWait ==
    \/ \E name \in WaitNames, check \in Preds, timeout \in {0, TimeoutTicks} :
          WaitFor(name, check, timeout)
    \/ \E w \in 1..MaxWaits : WaitWake(w)
    \/ \E w \in 1..MaxWaits : Spin(w)
    \/ \E r \in 1..MaxReqs, body \in WaitBodies :
          Receive(r, body, ValidSignature(ChannelSecret, body), now)
    \/ Dispatch

\* Tasks waiting for events while payloads are dispatched.
SpecWait == Init /\ [][NextWait]_vars

\* ---------------------------------------- dispatch with waiters and handlers
\* Payloads of two text events, a memberJoined event, a standby event, a
\* message of an unknown subtype and events of an unknown type, active and
\* standby.
DispatchEvents == {1, 2, 4, 5, 6, 7, 9}

DispatchBodies == UNION {[1..n -> DispatchEvents] : n \in 0..MaxEvents}

NextDispatch ==
    \/ Listen("text")
    \/ WaitFor("text", "any", 0)
    \/ \E w \in 1..MaxWaits : WaitWake(w)
    \/ \E r \in 1..MaxReqs, body \in DispatchBodies :
          Receive(r, body, ValidSignature(ChannelSecret, body), now)
    \/ Dispatch

\* Correctly signed payloads dispatched to text handlers while tasks wait
\* for a text event.
SpecDispatch == Init /\ [][NextDispatch]_vars

\* ------------------------------------------------- payloads one after another
\* The response is sent and the request is over: the next POST can come.
Recycle(r) ==
    /\ reqs[r].pc = "done"
    /\ reqs' = [reqs EXCEPT ![r] = IdleReq]
    /\ UNCHANGED <<now, ignore_standby, handlers, pending, MESSAGES, ctxs,
                   waits, calls, running,
                   commands, router, gwcalls, limiter,
                   decoded, verifier, postbacks, runs>>

\* Text messages with the ids 1, 2 and 3.
CacheEvents == {1, 2, 8}

CacheBodies == UNION {[1..n -> CacheEvents] : n \in 1..MaxEvents}

NextCache ==
    \/ \E r \in 1..MaxReqs, body \in CacheBodies :
          /\ Len(ctxs) + Len(body) <= MaxCtxs
          /\ Receive(r, body, ValidSignature(ChannelSecret, body), now)
    \/ Dispatch
    \/ \E r \in 1..MaxReqs : Recycle(r)

\* Payloads of text messages arriving one after another and filling the
\* Messages cache.
SpecCache == Init /\ [][NextCache]_vars

\* ----------------------------------------------------------- command router
InRegistry(cmds, name) == \E k \in DOMAIN cmds : cmds[k].name = name

RegisterOverwriting(cmds, name, meta, coro) ==
    [cmds |-> SelectSeq(cmds, LAMBDA c : c.name # name)
                 \o <<[name |-> name, meta |-> meta]>>,
     reg |-> "ok"]

\* The wrapper of Client.command: a name already registered and a function
\* that is no coroutine function are refused, else the command is stored.
Register(cmds, name, meta, coro) ==
    IF InRegistry(cmds, name) THEN [cmds |-> cmds, reg |-> "ValueError"]
    ELSE IF ~coro THEN [cmds |-> cmds, reg |-> "TypeError"]
    ELSE [cmds |-> Append(cmds, [name |-> name, meta |-> meta]), reg |-> "ok"]

\* @client.command(name=...) on a function, while the module is set up.
Command(name, meta, coro) ==
    /\ running = 0
    /\ \A r \in DOMAIN reqs : reqs[r].pc = "idle"
    /\ Len(commands) < MaxCommands \/ InRegistry(commands, name)
    /\ LET out == Register(commands, name, meta, coro)
       IN  /\ commands' = out.cmds
           /\ router' = [NoRoute EXCEPT !.reg = out.reg, !.name = name]
    /\ UNCHANGED <<now, ignore_standby, handlers, pending, MESSAGES, ctxs,
                   reqs, waits, calls, running, gwcalls, limiter,
                   decoded, verifier, postbacks, runs>>

\* client.process_commands(ctx) on a text message; okf tells whether the
\* command functions called return or raise.
CallProcessCommands(text, okf) ==
    /\ running = 0
    /\ LET out == ProcessCommands(commands, text, okf)
       IN  router' = [NoRoute EXCEPT !.text = text, !.result = out.result,
                                     !.invoked = out.invoked]
    /\ UNCHANGED <<now, ignore_standby, handlers, pending, MESSAGES, ctxs,
                   reqs, waits, calls, running, commands, gwcalls, limiter,
                   decoded, verifier, postbacks, runs>>

NextCommand ==
    \/ \E name \in CommandNames, meta \in Metas, coro \in BOOLEAN :
          Command(name, meta, coro)
    \/ \E text \in CommandTexts, okf \in BOOLEAN :
          CallProcessCommands(text, okf)

\* Commands are registered and texts are routed to them.
SpecCommand == Init /\ [][NextCommand]_vars

\* A call of a command or postback function: which registration it was
\* made for, on which text or data, for which event.
Run(kind, fn, on, ev) == [kind |-> kind, fn |-> fn, on |-> on, ev |-> ev]

\* ------------------------------------------------- the info command of main
\* async def info(ctx), a command without parameters.
InfoMeta == [regular |-> <<>>, kw |-> FALSE]

\* The task of emit() that runs process_commands, at place i of the gather:
\* process_commands itself (fn 0), or on_text of main, the handler of text
\* events that awaits process_commands first.
CommandTask(r, i, st) ==
    /\ reqs[r].pc = "emit"
    /\ i \in DOMAIN reqs[r].tasks
    /\ reqs[r].tasks[i].st = st
    /\ ctxs[reqs[r].ctx].name = "text"

\* The task goes on, returns, or raises into do_event_safe, which logs.
TaskTo(r, i, st) ==
    [reqs EXCEPT ![r].tasks[i].st = st,
                 ![r].errs = IF st = "failed" THEN @ + 1 ELSE @]

\* The calls of command functions one process_commands makes for the event
\* ev.
RunsOf(invoked, text, ev) ==
    [k \in DOMAIN invoked |-> Run("command", invoked[k].cmd, text, ev)]

\* process_commands starts on the text of the event: the commands are tried
\* in the order of registration.  The function of info runs up to its first
\* await: source_as_group() asserts a group source, then the mark-as-read
\* request is sent.  When no command takes the text, process_commands
\* returns False; on_text then goes on and, for a user chat, sends its own
\* mark-as-read request.
RunProcessCommands(r, i) ==
    /\ running = 0
    /\ CommandTask(r, i, "running")
    /\ LET ctx == ctxs[reqs[r].ctx]
           out == ProcessCommands(commands, Chars(ctx.text), TRUE)
           route == [NoRoute EXCEPT !.text = Chars(ctx.text),
                                    !.invoked = out.invoked]
       IN  /\ \A k \in DOMAIN out.invoked :
                 commands[out.invoked[k].cmd].name = TextInfo
           /\ runs' = runs \o RunsOf(out.invoked, Chars(ctx.text),
                                     ctx.event_id)
           /\ IF out.invoked = <<>>
              THEN /\ reqs' = TaskTo(r, i,
                          IF reqs[r].tasks[i].fn # 0 /\ ctx.source = "user"
                          THEN "own_marking" ELSE "done")
                   /\ router' = [route EXCEPT !.result = out.result]
              ELSE IF ctx.source # "group"
              THEN /\ reqs' = TaskTo(r, i, "failed")
                   /\ router' = [route EXCEPT !.result = "raised"]
              ELSE /\ reqs' = TaskTo(r, i, "marking")
                   /\ router' = [route EXCEPT !.result = "pending"]
    /\ UNCHANGED <<now, ignore_standby, handlers, pending, MESSAGES, ctxs,
                   waits, calls, running, commands, gwcalls, limiter,
                   decoded, verifier, postbacks>>

\* The platform answers the mark-as-read request.  On another status than
\* 200 http.mark_as_read raises; else info calls ctx.reply, which checks the
\* context and sends the reply request or raises.
MarkAsReadResponse(r, i, ok) ==
    /\ running = 0
    /\ CommandTask(r, i, "marking")
    /\ IF ~ok
       THEN /\ reqs' = TaskTo(r, i, "failed")
            /\ router' = [router EXCEPT !.result = "raised"]
            /\ UNCHANGED <<calls, ctxs>>
       ELSE LET c == reqs[r].ctx
                st == ReplyOutcome(ctxs[c], now)
            IN  /\ Len(calls) < MaxCalls
                /\ calls' = Append(calls, [ctx |-> c, st |-> st])
                /\ ctxs' = IF st = "sent"
                           THEN [ctxs EXCEPT ![c] = MarkReplied(@)]
                           ELSE ctxs
                /\ reqs' = TaskTo(r, i, IF st = "sent" THEN "replying"
                                        ELSE "failed")
                /\ router' = IF st = "sent" THEN router
                             ELSE [router EXCEPT !.result = "raised"]
    /\ UNCHANGED <<now, ignore_standby, handlers, pending, MESSAGES, waits,
                   running, commands, gwcalls, limiter,
                   decoded, verifier, postbacks, runs>>

\* The reply request of info is answered and info goes on: it returns and
\* handle_command returns True, or http.reply has raised.
InfoReturn(r, i) ==
    /\ running = 0
    /\ CommandTask(r, i, "replying")
    /\ \E k \in DOMAIN calls :
          /\ calls[k].ctx = reqs[r].ctx
          /\ calls[k].st \in {"ok", "failed"}
          /\ reqs' = TaskTo(r, i, IF calls[k].st = "ok" THEN "done"
                                  ELSE "failed")
          /\ router' = [router EXCEPT !.result =
                           IF calls[k].st = "ok" THEN "true" ELSE "raised"]
    /\ UNCHANGED <<now, ignore_standby, handlers, pending, MESSAGES, ctxs,
                   waits, calls, running, commands, gwcalls, limiter,
                   decoded, verifier, postbacks, runs>>

\* One text event: "info" from a group, from a user, in standby, or "ping".
InfoBodies == {<<10>>, <<11>>, <<12>>, <<1>>}

NextInfo ==
    \/ Tick
    \/ \E name \in {TextSend, TextInfo} : Command(name, InfoMeta, TRUE)
    \/ \E r \in 1..MaxReqs, body \in InfoBodies, ts \in Times :
          Receive(r, body, ValidSignature(ChannelSecret, body), ts)
    \/ \E r \in 1..MaxReqs : Webhook(r) \/ ProcessEvent(r) \/ EmitReturn(r)
    \/ \E r \in 1..MaxReqs, i \in 1..(MaxHandlers + 1) :
          \/ HandlerStart(r, i)
          \/ RunProcessCommands(r, i)
          \/ InfoReturn(r, i)
          \/ \E ok \in BOOLEAN : MarkAsReadResponse(r, i, ok)
    \/ \E k \in 1..MaxCalls, ok \in BOOLEAN : ReplyResponse(k, ok)

\* Text events dispatched to the commands of main, no text handler being
\* registered.
SpecInfo == Init /\ [][NextInfo]_vars

\* ------------------------------------------------------ the gateway calls
\* RateLimit: the requests one RateLimit lets through in one window.
Quota == 2

GatewayFrame ==
    UNCHANGED <<now, ignore_standby, handlers, pending, MESSAGES, ctxs, reqs,
                waits, calls, running, commands, router,
                decoded, verifier, postbacks, runs>>

\* A task calls one of the functions of linex.http.
GatewayCall(c, op) ==
    /\ gwcalls[c].pc = "idle"
    /\ gwcalls' = [gwcalls EXCEPT ![c] = [IdleCall EXCEPT !.op = op,
                                                         !.pc = "called"]]
    /\ UNCHANGED limiter
    /\ GatewayFrame

\* RateLimit.call() turning the caller away instead of suspending it.
GatewayReject(c) ==
    /\ gwcalls[c].pc = "called"
    /\ gwcalls[c].op \in Limited
    /\ limiter[gwcalls[c].op] >= Quota
    /\ gwcalls' = [gwcalls EXCEPT ![c].pc = "raised"]
    /\ UNCHANGED limiter
    /\ GatewayFrame

\* `await rr.call()` with the window full: the caller is suspended.
GatewaySuspend(c) ==
    /\ gwcalls[c].pc = "called"
    /\ gwcalls[c].op \in Limited
    /\ limiter[gwcalls[c].op] >= Quota
    /\ gwcalls' = [gwcalls EXCEPT ![c].pc = "waiting", ![c].waited = TRUE]
    /\ UNCHANGED limiter
    /\ GatewayFrame

\* `await rr.call()` returns: the window has room for the caller.
GatewayAcquire(c) ==
    /\ gwcalls[c].pc \in {"called", "waiting"}
    /\ gwcalls[c].op \in Limited
    /\ limiter[gwcalls[c].op] < Quota
    /\ gwcalls' = [gwcalls EXCEPT ![c].pc = "acquired",
                                  ![c].acquired = TRUE]
    /\ limiter' = [limiter EXCEPT ![gwcalls[c].op] = @ + 1]
    /\ GatewayFrame

\* RateLimit: a new window begins.
WindowOpens(op) ==
    /\ limiter[op] > 0
    /\ limiter' = [limiter EXCEPT ![op] = 0]
    /\ UNCHANGED gwcalls
    /\ GatewayFrame

\* `await client.get(...)` / `await client.post(...)`: the request is sent,
\* after call() in the functions that have one, at once in the others.
GatewaySend(c) ==
    /\ \/ gwcalls[c].pc = "acquired"
       \/ gwcalls[c].pc = "called" /\ gwcalls[c].op \notin Limited
    /\ gwcalls' = [gwcalls EXCEPT ![c].pc = "sent"]
    /\ UNCHANGED limiter
    /\ GatewayFrame

\* The response arrives and the function raises or returns.
GatewayResponse(c, status) ==
    /\ gwcalls[c].pc = "sent"
    /\ gwcalls' = [gwcalls EXCEPT
           ![c].status = status,
           ![c].pc = IF Raises(gwcalls[c].op, status) THEN "raised"
                     ELSE "returned"]
    /\ UNCHANGED limiter
    /\ GatewayFrame

\* The caller goes on with the result or the exception.
GatewayForget(c) ==
    /\ gwcalls[c].pc \in {"returned", "raised"}
    /\ gwcalls' = [gwcalls EXCEPT ![c] = IdleCall]
    /\ UNCHANGED limiter
    /\ GatewayFrame

\* One task calling the functions of linex.http one after another.
NextGateway ==
    \/ \E op \in Operations : GatewayCall(1, op)
    \/ GatewaySuspend(1)
    \/ GatewayAcquire(1)
    \/ \E op \in Limited : WindowOpens(op)
    \/ GatewaySend(1)
    \/ \E status \in Statuses : GatewayResponse(1, status)
    \/ GatewayForget(1)

SpecGateway == Init /\ [][NextGateway]_vars

\* Several tasks calling fetch_user, which share rr_getUser.
NextLimiter ==
    \/ \E c \in 1..MaxCallers : GatewayCall(c, "fetch_user")
    \/ \E c \in 1..MaxCallers : GatewaySuspend(c)
    \/ \E c \in 1..MaxCallers : GatewayAcquire(c)
    \/ WindowOpens("fetch_user")
    \/ \E c \in 1..MaxCallers : GatewaySend(c)
    \/ \E c \in 1..MaxCallers, status \in Statuses : GatewayResponse(c, status)

\* Time passes, so a new window begins, and the event loop resumes a task
\* whose await can return.
SpecLimiter ==
    /\ Init
    /\ [][NextLimiter]_vars
    /\ WF_vars(WindowOpens("fetch_user"))
    /\ \A c \in 1..MaxCallers : WF_vars(GatewayAcquire(c))

\* ------------------------------------------------------ decoding events
\* All the state but the last context built.
DecodeFrame ==
    UNCHANGED <<now, ignore_standby, handlers, pending, MESSAGES, ctxs, reqs,
                waits, calls, running, commands, router, gwcalls, limiter,
                verifier, postbacks, runs>>

\* process() builds the context of an event of the class found under
\* `name`, the event having the keys `keys` of those the platform may omit.
Decode(name, keys) ==
    /\ decoded' = Construct(name, keys)
    /\ DecodeFrame

NextDecode ==
    /\ decoded = NoDecode
    /\ \E name \in ContextNames, keys \in SUBSET OptionalKeys :
          Decode(name, keys)

\* One event of any class, with any choice of the keys left out.
SpecDecode == Init /\ [][NextDecode]_vars

\* -------------------------------------------------- checking signatures
\* All the state but the last signature check.
VerifierFrame ==
    UNCHANGED <<now, ignore_standby, handlers, pending, MESSAGES, ctxs, reqs,
                waits, calls, running, commands, router, gwcalls, limiter,
                decoded, postbacks, runs>>

\* POST / with a raw body and a header reaches a client whose channel
\* secret is `secret`: the webhook computes and compares.
CheckSignature(secret, body, header) ==
    /\ verifier' = [secret |-> secret, body |-> body, header |-> header,
                    result |-> Verify(secret, body, header),
                    checked |-> TRUE]
    /\ VerifierFrame

NextVerifier ==
    /\ ~verifier.checked
    /\ \E secret \in Secrets, body \in BitBodies, header \in Headers :
          CheckSignature(secret, body, header)

\* One request with any body and any header, under any secret.
SpecVerifier == Init /\ [][NextVerifier]_vars

\* ------------------------------------------- concurrent requests and clears
\* Client.clear_cache() and Client.clear_cache_for("messages"), called by a
\* task at its turn: MESSAGES.clear().
ClearCache ==
    /\ running = 0
    /\ MESSAGES # <<>>
    /\ MESSAGES' = <<>>
    /\ UNCHANGED <<now, ignore_standby, handlers, pending, ctxs, reqs, waits,
                   calls, running, commands, router, gwcalls, limiter,
                   decoded, verifier, postbacks, runs>>

NextClear ==
    \/ \E r \in 1..Concurrent, body \in CacheBodies :
          /\ Len(ctxs) + Len(body) <= MaxCtxs
          /\ Receive(r, body, ValidSignature(ChannelSecret, body), now)
    \/ \E r \in 1..Concurrent : Webhook(r)
    \/ \E r \in 1..Concurrent : ProcessEvent(r)
    \/ \E r \in 1..Concurrent : HandlerStart(r, 1)
    \/ \E r \in 1..Concurrent, ok \in BOOLEAN : HandlerFinish(r, 1, ok)
    \/ \E r \in 1..Concurrent : EmitReturn(r)
    \/ ClearCache

\* Payloads of text messages handled by requests in flight together, each
\* suspended at the gather of its emit, while the cache is cleared now and
\* then.
SpecClear == Init /\ [][NextClear]_vars

\* -------------------------------------------------- postback registrations
\* @client.postback(prefix) on a function, while the module is set up: a
\* function that is no coroutine function is refused, else on_postback is
\* registered through Client.event under the name postback.
Postback(prefix, meta, coro) ==
    /\ running = 0
    /\ \A r \in DOMAIN reqs : reqs[r].pc = "idle"
    /\ handlers["postback"] < MaxHandlers
    /\ coro
    /\ postbacks' = Append(postbacks, [prefix |-> prefix, meta |-> meta])
    /\ handlers' = [handlers EXCEPT !["postback"] = @ + 1]
    /\ UNCHANGED <<now, ignore_standby, pending, MESSAGES, ctxs, reqs, waits,
                   calls, running, commands, router, gwcalls, limiter,
                   decoded, verifier, runs>>

\* emit runs the k-th on_postback on a postback event whose data is `data`.
CallOnPostback(k, data, okf) ==
    /\ running = 0
    /\ k \in DOMAIN postbacks
    /\ Len(runs) < MaxRuns
    /\ LET out == OnPostback(postbacks[k], data, okf)
       IN  /\ out.invoked # <<>>
           /\ runs' = Append(runs, Run("postback", k, data, <<0, 0>>))
    /\ UNCHANGED <<now, ignore_standby, handlers, pending, MESSAGES, ctxs,
                   reqs, waits, calls, running, commands, router, gwcalls,
                   limiter, decoded, verifier, postbacks>>

NextPostback ==
    \/ \E prefix \in PostbackPrefixes, meta \in Metas :
          Postback(prefix, meta, TRUE)
    \/ \E k \in 1..MaxHandlers, data \in PostbackData, okf \in BOOLEAN :
          CallOnPostback(k, data, okf)

\* Postback handlers are registered and postback events reach them.
SpecPostback == Init /\ [][NextPostback]_vars

\* ------------------------------------------------------- on_text of main
\* on_text is a task of the gather and process_commands has returned False
\* in it.
OnTextTask(r, i, st) ==
    /\ CommandTask(r, i, st)
    /\ reqs[r].tasks[i].fn # 0

\* The platform answers the mark-as-read request of on_text.  On another
\* status than 200 http.mark_as_read raises; else on_text calls ctx.reply,
\* which checks the context and sends the reply request or raises.
OnTextMarkResponse(r, i, ok) ==
    /\ running = 0
    /\ OnTextTask(r, i, "own_marking")
    /\ IF ~ok
       THEN /\ reqs' = TaskTo(r, i, "failed")
            /\ UNCHANGED <<calls, ctxs>>
       ELSE LET c == reqs[r].ctx
                st == ReplyOutcome(ctxs[c], now)
            IN  /\ Len(calls) < MaxCalls
                /\ calls' = Append(calls, [ctx |-> c, st |-> st])
                /\ ctxs' = IF st = "sent"
                           THEN [ctxs EXCEPT ![c] = MarkReplied(@)]
                           ELSE ctxs
                /\ reqs' = TaskTo(r, i, IF st = "sent" THEN "own_replying"
                                        ELSE "failed")
    /\ UNCHANGED <<now, ignore_standby, handlers, pending, MESSAGES, waits,
                   running, commands, router, gwcalls, limiter,
                   decoded, verifier, postbacks, runs>>

\* The reply request of on_text is answered: on_text returns, or http.reply
\* has raised.
OnTextReturn(r, i) ==
    /\ running = 0
    /\ OnTextTask(r, i, "own_replying")
    /\ \E k \in DOMAIN calls :
          /\ calls[k].ctx = reqs[r].ctx
          /\ calls[k].st \in {"ok", "failed"}
          /\ reqs' = TaskTo(r, i, IF calls[k].st = "ok" THEN "done"
                                  ELSE "failed")
    /\ UNCHANGED <<now, ignore_standby, handlers, pending, MESSAGES, ctxs,
                   waits, calls, running, commands, router, gwcalls, limiter,
                   decoded, verifier, postbacks, runs>>

\* main registers on_text once, with @client.event.
RegisterOnText ==
    /\ handlers["text"] = 0
    /\ Listen("text")

NextOnText ==
    \/ NextInfo
    \/ RegisterOnText
    \/ \E r \in 1..MaxReqs, i \in 1..(MaxHandlers + 1) :
          \/ OnTextReturn(r, i)
          \/ \E ok \in BOOLEAN : OnTextMarkResponse(r, i, ok)

\* Text events dispatched to the commands of main and to on_text, when it is
\* registered.
SpecOnText == Init /\ [][NextOnText]_vars

\* ------------------------------------------------------------- the claims
\* C1: a request whose X-Line-Signature differs from
\* base64(HMAC-SHA256(channel secret, body)) is answered 400 and that step
\* decodes no event, changes no cache entry or pending slot and starts no
\* handler or command.
C1_InvalidSignatureRejected ==
    [][\A r \in 1..MaxReqs :
          (/\ reqs[r].pc = "received"
           /\ reqs[r].sig # ValidSignature(ChannelSecret, reqs[r].body)
           /\ reqs'[r] # reqs[r])
          => /\ reqs'[r].pc = "done"
             /\ reqs'[r].status = 400
             /\ reqs'[r].tasks = <<>>
             /\ UNCHANGED <<ctxs, MESSAGES, pending, handlers, waits, calls,
                            running>>]_vars

C1_Witness ==
    \E r \in 1..MaxReqs :
        /\ reqs[r].status = 400
        /\ handlers["text"] > 0

\* C2: over all reply calls made on one context, in any interleaving, at
\* most one upstream reply request is sent.
C2_AtMostOneReplyRequest ==
    \A c \in DOMAIN ctxs :
        Cardinality({k \in DOMAIN calls :
            calls[k].ctx = c /\ calls[k].st \in SentStates}) <= 1

C2_Witness ==
    \E k1, k2 \in DOMAIN calls :
        /\ k1 < k2
        /\ calls[k1].ctx = calls[k2].ctx
        /\ calls[k1].st = "sent"
        /\ calls[k2].st = "already_replied"

\* The step is a reply call on context c.
ReplyCall(c) ==
    /\ Len(calls') = Len(calls) + 1
    /\ calls'[Len(calls')].ctx = c

LastOutcome == calls'[Len(calls')].st

\* C3 as stated: a reply call on a context already replied to fails with the
\* already-replied error and sends no request.
C3_AlreadyRepliedError ==
    [][\A c \in DOMAIN ctxs :
          (ReplyCall(c) /\ ctxs[c].replied)
          => (LastOutcome = "already_replied" /\ ctxs' = ctxs)]_vars

\* C3 amended: a reply call on a context already replied to fails with
\* CannotReply and sends no request; the error is the already-replied one
\* while the context is at most 1200 s old and the too-late one after that.
C3_RepliedCallCannotReply ==
    [][\A c \in DOMAIN ctxs :
          (ReplyCall(c) /\ ctxs[c].replied)
          => /\ ctxs' = ctxs
             /\ LastOutcome =
                  IF now - ctxs[c].timestamp > ReplyWindow
                  THEN "too_late" ELSE "already_replied"]_vars

C3_Witness ==
    \E k1, k2 \in DOMAIN calls :
        /\ k1 < k2
        /\ calls[k1].ctx = calls[k2].ctx
        /\ calls[k1].st \in SentStates
        /\ calls[k2].st = "too_late"

\* C4 as stated: a reply call on a context older than 1200 s fails with the
\* too-late error and sends nothing, first attempt or not; at 1200 s or less
\* the age check does not reject.
C4_TooLateError ==
    [][\A c \in DOMAIN ctxs :
          ReplyCall(c)
          => IF now - ctxs[c].timestamp > ReplyWindow
             THEN LastOutcome = "too_late" /\ ctxs' = ctxs
             ELSE LastOutcome # "too_late"]_vars

\* C4 amended: the same, for a context that carries a reply token; without
\* one the call fails with TypeError before the age is looked at.
C4_TooLateErrorWithToken ==
    [][\A c \in DOMAIN ctxs :
          (ReplyCall(c) /\ ctxs[c].reply_token)
          => IF now - ctxs[c].timestamp > ReplyWindow
             THEN LastOutcome = "too_late" /\ ctxs' = ctxs
             ELSE LastOutcome # "too_late"]_vars

C4_Witness ==
    /\ Len(calls) >= 1
    /\ calls[1].st = "too_late"
    /\ ctxs[calls[1].ctx].reply_token
    /\ ~ctxs[calls[1].ctx].replied
    /\ now - ctxs[calls[1].ctx].timestamp = ReplyWindow + 1

\* C5: a wait_for called with a timeout ends by the timeout: every turn of
\* its loop costs one sleep of the timeout, so it never starts more turns
\* than the timeout has sleeps, whatever its slot was filled with.
C5_WaitForEndsByTimeout ==
    \A w \in DOMAIN waits :
        waits[w].timeout # 0 => waits[w].iters <= waits[w].timeout

\* C6: when wait_for has ended with the Timeout error, its entry is no
\* longer in the pending table of its event name.
C6_TimeoutRemovesEntry ==
    \A w \in DOMAIN waits :
        waits[w].pc = "timeout" => w \notin DOMAIN pending[waits[w].name]

\* C7: the result of a wait_for is taken from its slot, and when the call
\* returns, it returns that result, the result satisfies the predicate of
\* the call and the entry has left the pending table for good.
C7_ReturnsAcceptedSlotContext ==
    [][\A w \in DOMAIN waits :
          /\ (waits[w].result = 0 /\ waits'[w].result # 0)
             => /\ w \in DOMAIN pending[waits[w].name]
                /\ waits'[w].result = pending[waits[w].name][w]
          /\ (waits[w].pc # "returned" /\ waits'[w].pc = "returned")
             => /\ waits[w].result # 0
                /\ waits'[w].result = waits[w].result
                /\ waits[w].check = "ping"
                   => ctxs[waits[w].result].text = "ping"
                /\ ctxs[waits[w].result].name = waits[w].name
          /\ waits'[w].pc = "returned"
             => w \notin DOMAIN pending'[waits[w].name]]_vars

C7_Witness ==
    \E w \in DOMAIN waits :
        /\ waits[w].pc = "returned"
        /\ waits[w].check = "ping"
        /\ Len(ctxs) >= 2

\* C8: once the slot of a pending wait is filled, no later dispatch replaces
\* the context in it while the entry is in the table.
C8_FirstEventWins ==
    [][\A n \in HandlerNames : \A w \in DOMAIN pending[n] :
          (pending[n][w] # 0 /\ w \in DOMAIN pending'[n])
          => pending'[n][w] = pending[n][w]]_vars

\* The event kind whose type on the wire is the name.
KindOf(name) == CHOOSE k \in HandlerNames : WireType(k) = name

\* C9: the dispatch of an event of kind K sets the slot of every entry
\* pending under K to the context of that event.
C9_DispatchFillsAllWaiters ==
    [][Len(ctxs') = Len(ctxs) + 1
       => LET c == Len(ctxs')
              k == KindOf(ctxs'[c].name)
          IN  \A w \in DOMAIN pending[k] :
                  w \in DOMAIN pending'[k] /\ pending'[k][w] = c]_vars

\* C10: when the gather of emit() completes for an event, every handler
\* registered for the event's name has been invoked and has finished,
\* whichever of its siblings raised.
C10_SiblingHandlersIsolated ==
    [][\A r \in 1..MaxReqs :
          (reqs[r].pc = "emit" /\ reqs'[r].pc # "emit")
          => /\ Len(reqs[r].tasks) >= handlers[ctxs[reqs[r].ctx].name]
             /\ \A i \in DOMAIN reqs[r].tasks : Finished(reqs[r].tasks[i])]_vars

C10_Witness ==
    \E r \in 1..MaxReqs :
        /\ reqs[r].pc = "emit"
        /\ Len(reqs[r].tasks) >= 2
        /\ reqs[r].tasks[1].st = "failed"
        /\ \A i \in 2..Len(reqs[r].tasks) : reqs[r].tasks[i].st = "done"

\* C11: a handler that raises while it handles an event of a payload does
\* not abort the dispatch: when the emit of that event returns, the loop
\* goes on with the next event of the payload (or the request is answered
\* 200 after the last one), and a later text event is still decoded, cached,
\* used to fill the waits pending under its name and fanned out.
C11_HandlerErrorKeepsDispatch ==
    [][\A r \in 1..MaxReqs :
          LET rq == reqs[r]
          IN  /\ (rq.pc = "emit" /\ reqs'[r].pc # "emit" /\ rq.errs >= 1)
                 => IF rq.idx < Len(rq.body)
                    THEN /\ reqs'[r].pc = "process"
                         /\ reqs'[r].idx = rq.idx + 1
                         /\ reqs'[r].body = rq.body
                    ELSE reqs'[r].pc = "done" /\ reqs'[r].status = 200
              /\ (/\ rq.pc = "process" /\ reqs'[r] # rq /\ rq.errs >= 1
                  /\ Pool[rq.body[rq.idx]].type = "message"
                  /\ Pool[rq.body[rq.idx]].mtype = "text"
                  /\ Pool[rq.body[rq.idx]].mode = "active")
                 => LET c == Len(ctxs')
                    IN  /\ c = Len(ctxs) + 1
                        /\ ctxs'[c].event_id = <<r, rq.idx>>
                        /\ \E i \in DOMAIN MESSAGES' :
                              MESSAGES'[i] = <<ctxs'[c].id, c>>
                        /\ \A w \in DOMAIN pending["text"] :
                              pending'["text"][w] = c
                        /\ reqs'[r].tasks = EmitTasks(handlers, "text")]_vars

C11_Witness ==
    \E r \in 1..MaxReqs :
        /\ reqs[r].pc = "emit"
        /\ reqs[r].idx = 2
        /\ reqs[r].errs >= 1
        /\ ctxs[reqs[r].ctx].event_id = <<r, 2>>
        /\ DOMAIN pending["text"] # {}
        /\ \A w \in DOMAIN pending["text"] : pending["text"][w] = reqs[r].ctx

Recognized(e) ==
    \/ e.type = "message" /\ e.mtype \in MESSAGE_CONTEXTS
    \/ e.type # "message" /\ e.type \in OTHER_CONTEXTS

\* C12: a correctly signed request whose payload holds recognized events
\* only is answered 200, whichever handlers and commands raise.
C12_ValidRequestAnswered200 ==
    [][\A r \in 1..MaxReqs :
          (/\ reqs[r].pc \in {"received", "process", "emit"}
           /\ reqs'[r].pc = "done"
           /\ reqs[r].sig = ValidSignature(ChannelSecret, reqs[r].body)
           /\ \A i \in DOMAIN reqs[r].body : Recognized(Pool[reqs[r].body[i]]))
          => reqs'[r].status = 200]_vars

\* C13: a well-formed event of a recognized kind other than message is
\* processed without error, fills every wait pending under its kind and
\* starts every handler registered under its kind.
C13_OtherKindsDispatched ==
    [][\A r \in 1..MaxReqs :
          LET rq == reqs[r]
              e == Pool[rq.body[rq.idx]]
          IN  (/\ rq.pc = "process" /\ reqs'[r] # rq
               /\ e.type \in OTHER_CONTEXTS
               /\ ~Standby(e, ignore_standby))
              => LET k == KindOf(e.type)
                     c == Len(ctxs')
                 IN  /\ reqs'[r].status # 500
                     /\ c = Len(ctxs) + 1
                     /\ \A w \in DOMAIN pending[k] : pending'[k][w] = c
                     /\ (handlers[k] > 0 =>
                           /\ reqs'[r].pc = "emit"
                           /\ Len(reqs'[r].tasks) = handlers[k])]_vars

RECURSIVE RecentIds(_, _, _)
\* The ids of the n most recently inserted distinct ids of a history of
\* insertions, read from its end.
RecentIds(hist, n, acc) ==
    IF hist = <<>> \/ Cardinality(acc) = n THEN acc
    ELSE RecentIds(SubSeq(hist, 1, Len(hist) - 1), n,
                   acc \cup {hist[Len(hist)].id})

\* C14: after any sequence of message insertions, repeated ids included,
\* the Messages cache holds exactly the most recently inserted ids, up to
\* the limit.
C14_CacheHoldsMostRecentIds ==
    {MESSAGES[i][1] : i \in DOMAIN MESSAGES} = RecentIds(ctxs, CacheLimit, {})

\* The event a request is about to process.
Current(rq) == Pool[rq.body[rq.idx]]

\* Request r takes the step of process() on its current event.
Processes(r) == reqs[r].pc = "process" /\ reqs'[r] # reqs[r]

\* The loop of process() goes on after the current event of request r: with
\* the next event of the payload, or with the answer 200 after the last.
GoesOn(r) ==
    IF reqs[r].idx < Len(reqs[r].body)
    THEN /\ reqs'[r].pc = "process"
         /\ reqs'[r].idx = reqs[r].idx + 1
         /\ reqs'[r].body = reqs[r].body
    ELSE reqs'[r].pc = "done" /\ reqs'[r].status = 200

\* The current event of request r, an active text message, is decoded,
\* cached, used to fill the waits pending under text and fanned out.
TextDispatched(r) ==
    LET c == Len(ctxs')
    IN  /\ c = Len(ctxs) + 1
        /\ ctxs'[c].event_id = <<r, reqs[r].idx>>
        /\ ctxs'[c].text = Current(reqs[r]).text
        /\ \E i \in DOMAIN MESSAGES' : MESSAGES'[i] = <<ctxs'[c].id, c>>
        /\ \A w \in DOMAIN pending["text"] : pending'["text"][w] = c
        /\ reqs'[r].pc = "emit"
        /\ reqs'[r].tasks = EmitTasks(handlers, "text")

ActiveText(e) == e.type = "message" /\ e.mtype = "text" /\ e.mode = "active"

\* A message event of a nested type the library has no context for.
UnknownSubKind(e) ==
    /\ e.type = "message"
    /\ e.mtype \notin {"text", "image", "video", "audio", "file", "location",
                       "sticker"}

\* C15: a message event whose nested type is none of text, image, video,
\* audio, file, location, sticker does not make process raise, inserts
\* nothing into the Messages cache, fills no pending slot and starts no
\* handler.
C15_UnknownSubtypeInert ==
    [][\A r \in 1..MaxReqs :
          (Processes(r) /\ UnknownSubKind(Current(reqs[r])))
          => /\ reqs'[r].status # 500
             /\ reqs'[r].pc # "emit"
             /\ reqs'[r].tasks = <<>>
             /\ UNCHANGED <<ctxs, MESSAGES, pending>>]_vars

C15_Witness ==
    \E r \in 1..MaxReqs :
        /\ reqs[r].pc = "process"
        /\ reqs[r].idx = 2
        /\ reqs[r].body[1] = 6
        /\ ctxs = <<>> /\ MESSAGES = <<>>
        /\ handlers["text"] > 0
        /\ \E w \in DOMAIN pending["text"] : pending["text"][w] = 0

\* C16: after an event with an unrecognized message sub-kind is skipped the
\* remaining events of the payload are still processed in array order: the
\* loop goes on with the next event, and a text event that follows is
\* decoded, cached and dispatched.
C16_RestProcessedAfterSkip ==
    [][\A r \in 1..MaxReqs :
          /\ (Processes(r) /\ UnknownSubKind(Current(reqs[r])))
             => GoesOn(r)
          /\ (/\ Processes(r)
              /\ reqs[r].idx > 1
              /\ UnknownSubKind(Pool[reqs[r].body[reqs[r].idx - 1]])
              /\ ActiveText(Current(reqs[r])))
             => TextDispatched(r)]_vars

C16_Witness ==
    \E r \in 1..MaxReqs :
        /\ reqs[r].pc = "emit"
        /\ reqs[r].idx = 2
        /\ reqs[r].body[1] = 6
        /\ Len(ctxs) = 1
        /\ ctxs[reqs[r].ctx].event_id = <<r, 2>>
        /\ MESSAGES = <<<<ctxs[1].id, 1>>>>

\* An event whose top-level type is neither message nor a recognized kind.
UnknownKind(e) == e.type # "message" /\ e.type \notin OTHER_CONTEXTS

\* Process fails on the current event of request r with nothing created,
\* filled or started for it.
DecodeError(r) ==
    /\ reqs'[r].pc = "done"
    /\ reqs'[r].status = 500
    /\ reqs'[r].tasks = <<>>
    /\ UNCHANGED <<ctxs, MESSAGES, pending>>

\* C17 as stated: an event whose top-level type is neither message nor a
\* recognized kind makes process fail with a decode error; no context is
\* created, no pending wait is filled, no handler runs and the failure is
\* raised to the caller.
C17_UnknownTypeRaises ==
    [][\A r \in 1..MaxReqs :
          (Processes(r) /\ UnknownKind(Current(reqs[r]))) => DecodeError(r)]_vars

\* C17 amended: the decode error is raised unless the event is in standby
\* mode and the application ignores standby; then the event is passed over
\* like any standby event, before its type is looked at.
C17_UnknownTypeRaisesUnlessStandby ==
    [][\A r \in 1..MaxReqs :
          (Processes(r) /\ UnknownKind(Current(reqs[r])))
          => IF Current(reqs[r]).mode = "standby" /\ ignore_standby
             THEN GoesOn(r) /\ UNCHANGED <<ctxs, MESSAGES, pending>>
             ELSE DecodeError(r)]_vars

C17_Witness ==
    \E r \in 1..MaxReqs :
        /\ reqs[r].pc = "done"
        /\ reqs[r].status = 500
        /\ ctxs = <<>>
        /\ handlers["text"] > 0
        /\ \E w \in DOMAIN pending["text"] : pending["text"][w] = 0

\* C18: when the application ignores standby, an event whose mode is
\* standby is skipped entirely: it is not decoded, not inserted into the
\* Messages cache, fills no pending slot and reaches no handler or command;
\* the other events of the payload are unaffected: the loop goes on and a
\* text event that follows is decoded, cached and dispatched.
C18_StandbySkipped ==
    [][\A r \in 1..MaxReqs :
          /\ (/\ Processes(r)
              /\ Current(reqs[r]).mode = "standby"
              /\ ignore_standby)
             => /\ GoesOn(r)
                /\ reqs'[r].tasks = <<>>
                /\ UNCHANGED <<ctxs, MESSAGES, pending>>
          /\ (/\ Processes(r)
              /\ ignore_standby
              /\ reqs[r].idx > 1
              /\ Pool[reqs[r].body[reqs[r].idx - 1]].mode = "standby"
              /\ ActiveText(Current(reqs[r])))
             => TextDispatched(r)]_vars

C18_Witness ==
    \E r \in 1..MaxReqs :
        /\ ignore_standby
        /\ reqs[r].pc = "emit"
        /\ reqs[r].idx = 2
        /\ reqs[r].body[1] = 5
        /\ Len(ctxs) = 1
        /\ ctxs[1].event_id = <<r, 2>>
        /\ DOMAIN pending["text"] # {}
        /\ \A w \in DOMAIN pending["text"] : pending["text"][w] = 1

\* C19: within one payload the events are processed strictly in array
\* order: the step that inserts into the cache and fills the pending waits
\* works on the event at the request's index, after the insertions and
\* fills of all the events before it, none of which is undone or redone.
C19_ArrayOrder ==
    [][\A r \in 1..MaxReqs :
          (Processes(r) /\ Len(ctxs') = Len(ctxs) + 1)
          => LET c == Len(ctxs')
                 e == Current(reqs[r])
             IN  /\ ctxs'[c].event_id = <<r, reqs[r].idx>>
                 /\ ctxs'[c].id = e.mid
                 /\ ctxs'[c].text = e.text
                 /\ ctxs'[c].mode = e.mode
                 /\ SubSeq(ctxs', 1, c - 1) = ctxs
                 /\ \A k \in DOMAIN ctxs :
                       ctxs[k].event_id[1] = r
                       => ctxs[k].event_id[2] < reqs[r].idx
                 /\ e.type = "message"
                    => \E i \in DOMAIN MESSAGES' : MESSAGES'[i] = <<e.mid, c>>
                 /\ NameOf(e) \in DOMAIN pending
                    => \A w \in DOMAIN pending[NameOf(e)] :
                          pending'[NameOf(e)][w] = c]_vars

C19_Witness ==
    /\ Len(ctxs) = 2
    /\ ctxs[1].event_id = <<1, 1>> /\ ctxs[1].id = 1
    /\ ctxs[2].event_id = <<1, 2>> /\ ctxs[2].id = 2
    /\ MESSAGES = <<<<1, 1>>, <<2, 2>>>>
    /\ DOMAIN pending["text"] # {}
    /\ \A w \in DOMAIN pending["text"] : pending["text"][w] = 2

\* C20: a payload whose event list is empty is short-circuited: process
\* returns at its first test with the notice of a successful verification;
\* no context is decoded, no cache or pending entry changes and no handler
\* or command is started.
C20_EmptyPayloadShortCircuit ==
    [][\A r \in 1..MaxReqs :
          (/\ reqs[r].pc = "received"
           /\ reqs'[r] # reqs[r]
           /\ reqs[r].body = <<>>
           /\ reqs[r].sig = ValidSignature(ChannelSecret, reqs[r].body))
          => /\ reqs'[r].pc = "done"
             /\ reqs'[r].status = 200
             /\ reqs'[r].notice
             /\ reqs'[r].tasks = <<>>
             /\ UNCHANGED <<ctxs, MESSAGES, pending, handlers, waits,
                            calls>>]_vars

C20_Witness ==
    \E r \in 1..MaxReqs :
        /\ reqs[r].pc = "done"
        /\ reqs[r].notice
        /\ ctxs = <<>> /\ MESSAGES = <<>>
        /\ handlers["text"] > 0
        /\ \E w \in DOMAIN pending["text"] : pending["text"][w] = 0

\* C21: emit starts process_commands for a text event if and only if no
\* handler is registered for text at that moment; with a text handler
\* registered emit runs the handlers and no command.
C21_RouterIffNoTextHandler ==
    [][\A r \in 1..MaxReqs :
          (Processes(r) /\ reqs'[r].pc = "emit" /\ ctxs'[reqs'[r].ctx].name = "text")
          => /\ (\E i \in DOMAIN reqs'[r].tasks : reqs'[r].tasks[i].fn = 0)
                  <=> handlers["text"] = 0
             /\ handlers["text"] > 0
                  => /\ Len(reqs'[r].tasks) = handlers["text"]
                     /\ \A i \in DOMAIN reqs'[r].tasks :
                           reqs'[r].tasks[i].fn = i]_vars

C21_Witness ==
    \E r \in 1..MaxReqs :
        /\ reqs[r].pc = "emit"
        /\ ctxs[reqs[r].ctx].name = "text"
        /\ handlers["text"] = 1
        /\ reqs[r].tasks = <<[fn |-> 1, st |-> "done"]>>

\* The command a call recorded by the router was made for.
CommandOf(call) == commands[call.cmd]

NoParams(cmd) == cmd.meta.regular = <<>> /\ ~cmd.meta.kw

\* C22: a command that declares no parameters has its function invoked
\* only for a text equal to the command name: "send" is not invoked for
\* "sender".
C22_NoParamsExactMatch ==
    \A i \in DOMAIN router.invoked :
        NoParams(CommandOf(router.invoked[i]))
        => router.text = CommandOf(router.invoked[i]).name

\* C23: a command that declares parameters has its function invoked only
\* for a text that starts with the command name followed by a space.
C23_ParamsNeedSpace ==
    \A i \in DOMAIN router.invoked :
        ~NoParams(CommandOf(router.invoked[i]))
        => StartsWith(router.text,
                      CommandOf(router.invoked[i]).name \o <<" ">>)

\* C24: whatever the text and the registered commands, process_commands
\* invokes the function of at most one command.
C24_AtMostOneCommand == Len(router.invoked) <= 1

RECURSIVE JoinSpace(_)
\* The segments one after another with a space between two of them.
JoinSpace(segs) ==
    IF segs = <<>> THEN <<>>
    ELSE IF Len(segs) = 1 THEN segs[1]
    ELSE segs[1] \o <<" ">> \o JoinSpace(Tail(segs))

\* A command with one positional str slot and a trailing keyword slot.
OneAndKeyword == [regular |-> <<"str">>, kw |-> TRUE]

\* C25: for a command with a trailing keyword slot, the text after the
\* command name is split on ';', the segments go left to right to the
\* positional slots and all the segments after the last positional slot,
\* joined and trimmed at the end, are the keyword value; "echo hello;world"
\* calls the function with positional "hello" and keyword value "world".
C25_ArgumentBinding ==
    /\ \A i \in DOMAIN router.invoked :
          LET call == router.invoked[i]
              cmd == CommandOf(call)
              n == Len(cmd.meta.regular)
              segs == Split(Drop(router.text, Len(cmd.name) + 1), ";")
          IN  (cmd.meta.kw /\ StartsWith(router.text, cmd.name \o <<" ">>))
              => /\ Len(segs) > n
                 /\ call.args = SubSeq(segs, 1, n)
                 /\ call.kwset
                 /\ call.kw = RStrip(JoinSpace(SubSeq(segs, n + 1, Len(segs))))
    /\ \A k \in DOMAIN commands :
          (/\ router.text = TextEchoHelloWorld
           /\ commands[k] = [name |-> TextEcho, meta |-> OneAndKeyword])
          => router.invoked =
                <<[cmd |-> k, args |-> <<<<"h", "e", "l", "l", "o">>>>,
                   kwset |-> TRUE, kw |-> <<"w", "o", "r", "l", "d">>]>>

C25_Witness ==
    /\ router.text = TextEchoHelloWorld
    /\ router.result = "true"
    /\ \E k \in DOMAIN commands :
          /\ commands[k] = [name |-> TextEcho, meta |-> OneAndKeyword]
          /\ router.invoked =
                <<[cmd |-> k, args |-> <<<<"h", "e", "l", "l", "o">>>>,
                   kwset |-> TRUE, kw |-> <<"w", "o", "r", "l", "d">>]>>

\* C26: registering a command under a name that is already registered
\* fails with an error and leaves the registry unchanged: the name stays
\* bound to the command registered first.
C26_DuplicateCommandRefused ==
    [][/\ (router'.reg # "none" /\ InRegistry(commands, router'.name))
          => router'.reg = "ValueError" /\ commands' = commands
       /\ \A k \in DOMAIN commands :
             k \in DOMAIN commands' /\ commands'[k] = commands[k]]_vars

C26_Witness ==
    /\ router.reg = "ValueError"
    /\ Len(commands) = 2
    /\ commands[1].name = router.name
    /\ commands[1].meta = [regular |-> <<>>, kw |-> FALSE]

\* The reply requests sent upstream for the events of request r.
RepliesOf(r) ==
    {k \in DOMAIN calls : /\ calls[k].st \in SentStates
                          /\ ctxs[calls[k].ctx].event_id[1] = r}

\* The task of request r that ran process_commands ended without raising.
Returned(r) == reqs[r].tasks = <<[fn |-> 0, st |-> "done"]>>

\* info returns for request r, and with it handle_command and
\* process_commands.
ReturnsNow(r) ==
    /\ CommandTask(r, 1, "replying")
    /\ reqs'[r].pc = "emit"
    /\ reqs'[r].tasks[1].st = "done"

\* Request r, a correctly signed payload of one text event "info" given to
\* a client with the command info and no text handler, completes.
InfoPayloadCompletes(r) ==
    /\ reqs[r].pc \in {"process", "emit"}
    /\ reqs'[r].pc = "done"
    /\ Len(reqs[r].body) = 1
    /\ Pool[reqs[r].body[1]].mtype = "text"
    /\ Pool[reqs[r].body[1]].text = "info"
    /\ InRegistry(commands, TextInfo)
    /\ handlers["text"] = 0

Issued(c) == gwcalls[c].pc \in {"sent", "returned", "raised"}

\* C28: every function of the gateway acquires its rate limiter before it
\* issues its HTTP call: a call whose request has gone out has acquired one.
C28_LimiterBeforeHttpCall ==
    \A c \in 1..MaxCallers : Issued(c) => gwcalls[c].acquired

\* C29: every function of the gateway raises when the platform answers with
\* a status other than success: a call that returned normally got a 200.
C29_NonSuccessRaises ==
    \A c \in 1..MaxCallers :
        gwcalls[c].pc = "returned" => gwcalls[c].status = 200

\* A caller at `await rr.call()`.
Acquiring(c) == gwcalls[c].pc \in {"called", "waiting"}

\* C30: when more callers than the quota acquire one rate limiter within a
\* window, no more than the quota pass in that window, a caller at the
\* acquire is never turned away or dropped, it only waits or passes, and
\* every one of them eventually passes.
C30_ExcessCallersDelayedNotDropped ==
    /\ [](limiter["fetch_user"] <= Quota)
    /\ [][\A c \in 1..MaxCallers :
            Acquiring(c) => gwcalls'[c].pc \in {"called", "waiting", "acquired"}]_vars
    /\ \A c \in 1..MaxCallers : Acquiring(c) ~> gwcalls[c].acquired

C30_Witness ==
    \E c \in 1..MaxCallers : gwcalls[c].waited /\ gwcalls[c].acquired

\* The field of a context that holds the value of an optional key.
FieldOf(key) ==
    CASE key = "source" -> "source"
      [] key = "replyToken" -> "reply_token"
      [] key = "message.markAsReadToken" -> "mark_as_read_token"
      [] key = "postback.params" -> "params"

\* The optional keys the class found under `name` reads.
KeysRead(name) ==
    {"source", "replyToken"}
    \cup (IF name \in MESSAGE_CONTEXTS THEN {"message.markAsReadToken"}
          ELSE {})
    \cup (IF name = "postback" THEN {"postback.params"} ELSE {})

\* C31: decoding an event in which a key the platform may omit is absent
\* never raises and gives a context whose field for that key is null.
C31_AbsentKeysDecodeToNull ==
    decoded # NoDecode
    => /\ ~decoded.raised
       /\ \A key \in KeysRead(decoded.name) \ decoded.keys :
             decoded.fields[FieldOf(key)] = "None"

\* A bit string with its i-th bit inverted.
Flip(bits, i) == [bits EXCEPT ![i] = 1 - @]

TaskStep(old, new) ==
    \/ new = old
    \/ old.st = "ready" /\ new = [old EXCEPT !.st = "running"]
    \/ old.st = "running" /\ new.fn = old.fn /\ Finished(new)

\* The emit of request r returns.
EmitReturns(r) == reqs[r].pc = "emit" /\ reqs'[r].pc # "emit"

\* C33: emit invokes every handler registered for the kind exactly once per
\* event and returns only after all of them have finished, with or without
\* an error, so the next event of the payload is decoded only after every
\* handler of the event before it has finished.
C33_EmitJoinsEveryHandler ==
    [][\A r \in 1..MaxReqs :
          LET rq == reqs[r]
          IN  /\ (rq.pc = "emit" /\ reqs'[r].pc = "emit")
                 => /\ DOMAIN reqs'[r].tasks = DOMAIN rq.tasks
                    /\ \A i \in DOMAIN rq.tasks :
                          TaskStep(rq.tasks[i], reqs'[r].tasks[i])
              /\ EmitReturns(r)
                 => /\ \A h \in 1..handlers[ctxs[rq.ctx].name] :
                          Cardinality({i \in DOMAIN rq.tasks :
                                          rq.tasks[i].fn = h}) = 1
                    /\ \A i \in DOMAIN rq.tasks : Finished(rq.tasks[i])
              /\ (reqs'[r].pc = "process" /\ reqs'[r].idx = rq.idx + 1
                  /\ rq.idx >= 1)
                 => \/ EmitReturns(r)
                    \/ rq.pc = "process" /\ rq.tasks = <<>>]_vars

C33_Witness ==
    \E r \in 1..MaxReqs :
        /\ reqs[r].pc = "emit"
        /\ reqs[r].idx = 2
        /\ handlers[ctxs[reqs[r].ctx].name] = 2
        /\ reqs[r].tasks = <<[fn |-> 1, st |-> "running"],
                             [fn |-> 2, st |-> "ready"]>>
        /\ \E c \in DOMAIN ctxs :
              /\ ctxs[c].event_id = <<r, 1>>
              /\ handlers[ctxs[c].name] = 2

\* Request r hands the coroutines of its current event to gather.
EntersEmit(r) == Processes(r) /\ reqs'[r].pc = "emit"

\* A coroutine of the emit of request r starts running.
StartsHandler(r) ==
    \E i \in DOMAIN reqs'[r].tasks :
        /\ reqs'[r].tasks[i].st = "running"
        /\ (reqs[r].pc # "emit" \/ i \notin DOMAIN reqs[r].tasks
            \/ reqs[r].tasks[i].st # "running")

\* C34: for each dispatched message event the context is put into the
\* Messages cache and into every wait pending under its name in the step
\* that hands its handlers to gather, none of which is running yet; a
\* handler starts only in a later step.
C34_CachedAndFilledBeforeHandlers ==
    [][\A r \in 1..MaxReqs :
          /\ (EntersEmit(r) /\ Current(reqs[r]).type = "message")
             => LET c == reqs'[r].ctx
                    name == ctxs'[c].name
                IN  /\ c = Len(ctxs')
                    /\ ctxs'[c].event_id = <<r, reqs[r].idx>>
                    /\ \E i \in DOMAIN MESSAGES' :
                          MESSAGES'[i] = <<ctxs'[c].id, c>>
                    /\ \A w \in DOMAIN pending[name] : pending'[name][w] = c
                    /\ \A i \in DOMAIN reqs'[r].tasks :
                          reqs'[r].tasks[i].st = "ready"
          /\ StartsHandler(r)
             => /\ reqs[r].pc = "emit"
                /\ reqs'[r].ctx = reqs[r].ctx]_vars

C34_Witness ==
    \E r \in 1..MaxReqs :
        /\ reqs[r].pc = "emit"
        /\ reqs[r].tasks[1].st = "running"
        /\ ctxs[reqs[r].ctx].name = "text"
        /\ \E i \in DOMAIN MESSAGES :
              MESSAGES[i] = <<ctxs[reqs[r].ctx].id, reqs[r].ctx>>
        /\ \E w \in DOMAIN pending["text"] : pending["text"][w] = reqs[r].ctx
        /\ \E w \in DOMAIN waits : waits[w].pc = "sleep" /\ waits[w].result = 0

\* C35: with webhook requests in flight together, interleaved where they
\* suspend, and the cache cleared in between, the Messages cache never
\* holds more than the limit of entries in a state another task can see.
C35_CacheNeverOverLimit == Len(MESSAGES) <= CacheLimit

C35_Witness ==
    /\ Len(MESSAGES) = CacheLimit
    /\ Cardinality({ctxs[c].id : c \in DOMAIN ctxs}) > CacheLimit
    /\ \E r, q \in 1..Concurrent :
          /\ r # q
          /\ reqs[r].pc = "emit"
          /\ reqs[q].pc = "emit"
          /\ reqs[r].idx < Len(reqs[r].body)

\* C36: the function of a handler registered through postback(prefix) is
\* invoked only for postback events whose data starts with that prefix.
C36_PostbackPrefixOnly ==
    \A n \in DOMAIN runs :
        runs[n].kind = "postback"
        => StartsWith(runs[n].on, postbacks[runs[n].fn].prefix)

\* The upstream reply request of context c has failed.
ReplyFailed(c) ==
    \E k \in DOMAIN calls : calls[k].ctx = c /\ calls[k].st = "failed"

\* C37 as stated: once the upstream reply request of a context has failed,
\* the context stays marked as replied and every later reply call on it
\* fails with the already-replied error and sends no request.
C37_FailedReplyAlreadyReplied ==
    [][\A c \in DOMAIN ctxs :
          ReplyFailed(c)
          => /\ ctxs[c].replied /\ ctxs'[c].replied
             /\ ReplyCall(c)
                => (LastOutcome = "already_replied" /\ ctxs' = ctxs)]_vars

\* C37 amended: once the upstream reply request of a context has failed,
\* the context stays marked as replied and every later reply call on it
\* fails with CannotReply and sends no request; the error is the
\* already-replied one while the context is at most 1200 s old and the
\* too-late one after that.
C37_FailedReplyStaysReplied ==
    [][\A c \in DOMAIN ctxs :
          ReplyFailed(c)
          => /\ ctxs[c].replied /\ ctxs'[c].replied
             /\ ReplyCall(c)
                => /\ ctxs' = ctxs
                   /\ LastOutcome \notin SentStates
                   /\ LastOutcome =
                        IF now - ctxs[c].timestamp > ReplyWindow
                        THEN "too_late" ELSE "already_replied"]_vars

C37_Witness ==
    \E k1, k2 \in DOMAIN calls :
        /\ k1 < k2
        /\ calls[k1].ctx = calls[k2].ctx
        /\ calls[k1].st = "failed"
        /\ calls[k2].st = "already_replied"

\* C38: a waiter never observes an event dispatched before it registered:
\* wait_for creates its slot empty, a slot is only ever set to the context
\* built in the very step that sets it, and a waiter takes its result from
\* its own slot only.
C38_NoEventFromBeforeRegistration ==
    [][/\ Len(waits') = Len(waits) + 1
          => LET w == Len(waits')
             IN  /\ w \notin DOMAIN pending[waits'[w].name]
                 /\ pending'[waits'[w].name][w] = 0
                 /\ waits'[w].result = 0
       /\ \A n \in HandlerNames : \A w \in DOMAIN pending[n] :
             (w \in DOMAIN pending'[n] /\ pending'[n][w] # pending[n][w])
             => /\ Len(ctxs') = Len(ctxs) + 1
                /\ pending'[n][w] = Len(ctxs')
       /\ \A w \in DOMAIN waits :
             waits'[w].result # waits[w].result
             => /\ waits[w].result = 0
                /\ w \in DOMAIN pending[waits[w].name]
                /\ waits'[w].result = pending[waits[w].name][w]]_vars

C38_Witness ==
    \E w \in DOMAIN waits :
        /\ waits[w].name = "text"
        /\ waits[w].pc = "sleep"
        /\ waits[w].result = 0
        /\ w \in DOMAIN pending["text"]
        /\ pending["text"][w] = 0
        /\ \E c \in DOMAIN ctxs : ctxs[c].name = "text"

\* The calls of the function of command k made for the event ev.
CommandRuns(k, ev) ==
    {n \in DOMAIN runs : runs[n] = Run("command", k, runs[n].on, ev)}

\* C39: when on_text, which itself calls process_commands, is registered
\* for text events, the function of every command that matches the text has
\* been called exactly once for the event when emit returns, and the
\* function of no other command has been called for it: emit does not call
\* the router again.
C39_OnTextRunsCommandsOnce ==
    [][\A r \in 1..MaxReqs :
          LET ctx == ctxs[reqs[r].ctx]
          IN  (/\ EmitReturns(r)
               /\ ctx.name = "text"
               /\ handlers["text"] >= 1)
              => \A k \in DOMAIN commands :
                    Cardinality(CommandRuns(k, ctx.event_id))
                       = IF Match(Chars(ctx.text), commands[k].name)
                         THEN 1 ELSE 0]_vars

\* on_text has finished for an "info" text, and info has run once for it.
C39_Witness ==
    \E r \in 1..MaxReqs, k \in DOMAIN commands :
       /\ reqs[r].pc = "emit"
       /\ reqs[r].tasks = <<[fn |-> 1, st |-> "done"]>>
       /\ handlers["text"] = 1
       /\ commands[k].name = TextInfo
       /\ runs = <<Run("command", k, TextInfo, <<r, 1>>)>>

====
